---- MODULE Spec2Model ----
(***************************************************************************)
(* Model of the caffeine-intake tracking applications (Cafe1.py,           *)
(* CafeLamiaa.py, cafe.py): the metric calculator, the rule engine, the    *)
(* page handlers that drive them and the CSV record store.                 *)
(*                                                                         *)
(* Numbers read from a CSV cell or computed as Python floats are kept in   *)
(* hundredths (the precision of round(x, 2), Cafe1.py:142): 99.9 mg is     *)
(* 9990, 7 h is 700.  Python ints (hours, scores, flags) are plain         *)
(* integers.  A message is named by the rule that emits it.                *)
(***************************************************************************)
EXTENDS Integers, Sequences, FiniteSets, TLC

VARIABLES
    call,          \* metric calculator: the call being made (function, arguments)
    result,        \* metric calculator: the value the call returned
    latest,        \* rule engine: the row handed to the engine (cells by column)
    prow,          \* rule engine: the participant profile row, or NoProfile
    out,           \* rule engine: what the last evaluation returned (or that it raised)
    participants,  \* data/participants.csv, a sequence of rows
    logsFile,      \* data/daily_logs.csv, a sequence of rows
    pack,          \* page 3: the report on display, or NoPack
    flash,         \* the st.error / st.success the last handler issued, or NoFlash
    history,       \* reporter: the frame of records handed to the function
    report,        \* reporter: what the function returned, or NoReport
    cups,          \* lamiaacafe.py: st.session_state and the advice last shown
    budget,        \* APPLICATION.py: accounts, st.session_state, CSV and the last run
    sess,          \* concurrent sessions: each script run's position and its frame
    acked          \* concurrent sessions: keys whose append showed st.success

vars ==
    <<call, result, latest, prow, out, participants, logsFile, pack, flash,
      history, report, cups, budget, sess, acked>>

metricVars == <<call, result>>
ruleVars == <<latest, prow, out>>
storeVars == <<participants, logsFile, pack, flash>>
trendVars == <<history, report>>
appVars == <<cups, budget, sess, acked>>

(***************************************************************************)
(* Bounds of the model.                                                    *)
(***************************************************************************)
MaxItems == 3      \* longest drink -> quantity mapping handed to the total
MaxDictDrinks == 4 \* such a mapping draws its keys from the first catalog items
MaxQty == 2        \* largest quantity per drink
MaxLevelMg == 210  \* largest whole-mg total handed to the level classifier
MaxDate == 2       \* calendar dates are 1..MaxDate
MaxLogs == 2       \* most rows in daily_logs.csv
MaxParticipants == 2   \* most rows in participants.csv
MaxHistory == 8     \* most records in a history handed to a reporter
MaxMissingLen == 5  \* longest history that may hold a day with missing cells

(***************************************************************************)
(* Numbers.                                                                *)
(***************************************************************************)
\* The float n.00 in hundredths.
Fx(n) == n * 100

\* Python int(x) of a float kept in hundredths: truncation toward zero.
IntOf(v) == IF v >= 0 THEN v \div 100 ELSE -((-v) \div 100)

SeqRange(s) == {s[i] : i \in 1..Len(s)}

(***************************************************************************)
(* Catalog (Cafe1.py:23-32, cafe.py:24-33): a dict, kept as the sequence   *)
(* of its items in insertion order, which is its iteration order.          *)
(***************************************************************************)
CAFFEINE_CATALOG ==
    << [drink |-> "Espresso (30 ml)", mg |-> 75],
       [drink |-> "Cafe filtre (250 ml)", mg |-> 95],
       [drink |-> "Cafe instantane (250 ml)", mg |-> 60],
       [drink |-> "The noir (250 ml)", mg |-> 45],
       [drink |-> "The vert (250 ml)", mg |-> 30],
       [drink |-> "Boisson energetique (250 ml)", mg |-> 80],
       [drink |-> "Cola (330 ml)", mg |-> 35],
       [drink |-> "Chocolat (50 g)", mg |-> 10] >>

\* CAFFEINE_CATALOG.get(drink, default)
CatalogGet(drink, default) ==
    IF \E i \in 1..Len(CAFFEINE_CATALOG) : CAFFEINE_CATALOG[i].drink = drink
    THEN CAFFEINE_CATALOG[CHOOSE i \in 1..Len(CAFFEINE_CATALOG) :
                              CAFFEINE_CATALOG[i].drink = drink].mg
    ELSE default

\* HOURS = list(range(0, 24))
HOURS == 0..23

(***************************************************************************)
(* Metric calculator.                                                      *)
(***************************************************************************)
\* Faulty variant: the midnight wrap is taken only when wake < bed.
compute_sleep_hours_from_hours_NoWrapOnEqual(bed_hour, wake_hour) ==
    LET bed == bed_hour
        wake == IF wake_hour < bed THEN wake_hour + 24 ELSE wake_hour
    IN  Fx(wake - bed)

\* Cafe1.py: wake += 24 when wake <= bed; round(float(wake - bed), 2).
compute_sleep_hours_from_hours(bed_hour, wake_hour) ==
    LET bed == bed_hour
        wake == IF wake_hour <= bed THEN wake_hour + 24 ELSE wake_hour
        sleep_hours == wake - bed
    IN  Fx(sleep_hours)

\* CafeLamiaa.py: the same, returned as float(wake - bed) without rounding.
compute_sleep_hours_from_hours_Lamiaa(bed_hour, wake_hour) ==
    LET bed == bed_hour
        wake == IF wake_hour <= bed THEN wake_hour + 24 ELSE wake_hour
    IN  Fx(wake - bed)

\* cafe.py compute_sleep_hours(bed, wake): both times of day (minutes after
\* midnight) are combined with date.today(), read once for each (day numbers
\* today_bed and today_wake); wake is moved to the next day when
\* wake_dt <= bed_dt; round(seconds / 3600, 2).
MinutesPerDay == 1440
compute_sleep_hours(bed, wake, today_bed, today_wake) ==
    LET bed_dt == today_bed * MinutesPerDay + bed
        wake_0 == today_wake * MinutesPerDay + wake
        wake_dt == IF wake_0 <= bed_dt THEN wake_0 + MinutesPerDay ELSE wake_0
        delta == wake_dt - bed_dt
    IN  (delta * 10 + 3) \div 6

\* The loop of compute_caffeine_total over drink_qty.items(), from item i on.
\* A zero or negative quantity is skipped; the others add qty * mg_unit to
\* the total and one part "<drink> x<qty> (<mg> mg)" to the breakdown.
RECURSIVE CaffeineLoop(_, _, _, _)
CaffeineLoop(drink_qty, i, total, parts) ==
    IF i > Len(drink_qty) THEN [total |-> total, parts |-> parts]
    ELSE LET drink == drink_qty[i].drink
             qty == drink_qty[i].qty
         IN  IF qty <= 0 THEN CaffeineLoop(drink_qty, i + 1, total, parts)
             ELSE LET mg_unit == CatalogGet(drink, 0)
                      mg == qty * mg_unit
                  IN  CaffeineLoop(drink_qty, i + 1, total + mg,
                                   Append(parts, [drink |-> drink, qty |-> qty, mg |-> mg]))

\* Faulty variant of the loop: the quantity is dropped from the product (total += mg_unit).
RECURSIVE CaffeineLoop_UnitOnly(_, _, _, _)
CaffeineLoop_UnitOnly(drink_qty, i, total, parts) ==
    IF i > Len(drink_qty) THEN [total |-> total, parts |-> parts]
    ELSE LET drink == drink_qty[i].drink
             qty == drink_qty[i].qty
         IN  IF qty <= 0 THEN CaffeineLoop_UnitOnly(drink_qty, i + 1, total, parts)
             ELSE LET mg == CatalogGet(drink, 0)
                  IN  CaffeineLoop_UnitOnly(drink_qty, i + 1, total + mg,
                                   Append(parts, [drink |-> drink, qty |-> qty, mg |-> mg]))

\* Faulty variant of the loop: only negative quantities are skipped (qty < 0).
RECURSIVE CaffeineLoop_KeepZero(_, _, _, _)
CaffeineLoop_KeepZero(drink_qty, i, total, parts) ==
    IF i > Len(drink_qty) THEN [total |-> total, parts |-> parts]
    ELSE LET drink == drink_qty[i].drink
             qty == drink_qty[i].qty
         IN  IF qty < 0 THEN CaffeineLoop_KeepZero(drink_qty, i + 1, total, parts)
             ELSE LET mg == qty * CatalogGet(drink, 0)
                  IN  CaffeineLoop_KeepZero(drink_qty, i + 1, total + mg,
                                   Append(parts, [drink |-> drink, qty |-> qty, mg |-> mg]))

compute_caffeine_total_UnitOnly(drink_qty) ==
    LET r == CaffeineLoop_UnitOnly(drink_qty, 1, 0, <<>>)
    IN  [total |-> r.total, detail |-> r.parts]

compute_caffeine_total_KeepZero(drink_qty) ==
    LET r == CaffeineLoop_KeepZero(drink_qty, 1, 0, <<>>)
    IN  [total |-> r.total, detail |-> r.parts]

\* compute_caffeine_total (Cafe1.py, cafe.py) and compute_caffeine_from_units
\* (CafeLamiaa.py): (int(total), " | ".join(parts) if parts else "").  The
\* breakdown string is kept as the sequence of its parts; "" is <<>>.
compute_caffeine_total(drink_qty) ==
    LET r == CaffeineLoop(drink_qty, 1, 0, <<>>)
    IN  [total |-> r.total, detail |-> r.parts]

Faible == "Faible"
Moyen == "Moyen"
Eleve == "Eleve"

\* Faulty variant: the Medium band is closed on the wrong side (mg <= 100 is Low).
caffeine_level_LowInclusive(mg) ==
    IF mg <= Fx(100) THEN Faible
    ELSE IF mg <= Fx(200) THEN Moyen
    ELSE Eleve

\* caffeine_level (Cafe1.py, CafeLamiaa.py), on a number: float(mg or 0).
caffeine_level(mg) ==
    IF mg < Fx(100) THEN Faible
    ELSE IF mg <= Fx(200) THEN Moyen
    ELSE Eleve

\* risk_level (cafe.py).
risk_level(caffeine_mg_total) ==
    IF caffeine_mg_total < Fx(100) THEN Faible
    ELSE IF caffeine_mg_total <= Fx(200) THEN Moyen
    ELSE Eleve

(***************************************************************************)
(* Cells, rows and the values that stand for "nothing yet".                *)
(* A CSV cell is a number (in hundredths), empty (pandas reads NaN) or     *)
(* text that is no number.                                                 *)
(***************************************************************************)
Num(v) == [k |-> "num", v |-> v]
NaN == [k |-> "nan", v |-> 0]
Bad == [k |-> "str", v |-> 0]

NoCall == [fn |-> "none", bed |-> 0, wake |-> 0, mg |-> 0, drink_qty |-> <<>>, form |-> FALSE]
\* midnight: whether the day changed between the clock reads of the call.
NoResult ==
    [done |-> FALSE, hours |-> 0, level |-> "", total |-> 0, detail |-> <<>>,
     midnight |-> FALSE, id |-> <<>>, raised |-> FALSE]
Row(date, pid, caf, last_h, sleep_h, quality, stress, anxiety, focus, palp, head, irrit, digest) ==
    [date |-> date, participant_id |-> pid, caffeine_mg_total |-> caf,
     last_caffeine_hour |-> last_h, sleep_hours |-> sleep_h, sleep_quality_1_5 |-> quality,
     stress_1_10 |-> stress, anxiety_1_10 |-> anxiety, focus_1_10 |-> focus,
     palpitations |-> palp, headache |-> head, irritability |-> irrit, digestive |-> digest]
NoRow == Row(0, "", NaN, NaN, NaN, NaN, NaN, NaN, NaN, NaN, NaN, NaN, NaN)
NoProfile == [participant_id |-> "", sensitivity |-> "None"]
NoOut == [variant |-> "none", raised |-> FALSE, today |-> <<>>]
NoPack ==
    [shown |-> FALSE, pid |-> "", start_date |-> 0, end_date |-> 0,
     summary |-> <<>>, today |-> <<>>, patterns |-> <<>>]

NoFlash == [kind |-> "none", pid |-> "", date |-> 0]
NoCups == [total_cafeine |-> 0, historique |-> <<>>, clicked |-> "none", message |-> <<>>]
\* APPLICATION.py before the first click: no account file, an empty session
\* state, no budget_history.csv, the login page on screen.  user "" is None;
\* last is <<>> while the session has no "last" key, else <<the stored dict>>;
\* msg is <<analysis_msg>> of the last run, Unbound when the run did not
\* assign the name.
NoLast == <<>>
Unbound == <<>>
NoBudget ==
    [accounts |-> {}, user |-> "", last |-> NoLast, page |-> "login", msg |-> Unbound,
     save_shown |-> FALSE, csv |-> <<>>, clicked |-> "none"]
Sessions == {"A", "B"}
IdleSession == [pc |-> "idle", pid |-> "", entry_date |-> 0, form |-> <<>>, logs |-> <<>>]
NoSess == [s \in Sessions |-> IdleSession]
NoReport ==
    [fn |-> "none", summary |-> <<>>, today |-> <<>>, patterns |-> <<>>, caf_bin |-> <<>>]

MetricIdle == call = NoCall /\ result = NoResult
RuleIdle == latest = NoRow /\ prow = NoProfile /\ out = NoOut
StoreIdle == participants = <<>> /\ logsFile = <<>> /\ pack = NoPack /\ flash = NoFlash
TrendIdle == history = <<>> /\ report = NoReport
AppIdle == cups = NoCups /\ budget = NoBudget /\ sess = NoSess /\ acked = {}

(***************************************************************************)
(* Parse-or-default helpers and the participant profile.                   *)
(***************************************************************************)
\* safe_int: default when pd.isna(x) or when int(float(x)) raises.
safe_int(x, default) == IF x.k = "num" THEN IntOf(x.v) ELSE default

\* safe_float: default when pd.isna(x) or when float(x) raises.
safe_float(x, default) == IF x.k = "num" THEN x.v ELSE default

\* str(x).strip() of a profile's sensitivity cell; an empty CSV cell is read
\* as NaN and str(NaN) is "nan".
StrStrip(x) == IF x = "NaN" THEN "nan" ELSE x

\* s.lower() on the strings a sensitivity can be.
Lower(s) ==
    CASE s = "Faible" -> "faible"
      [] s = "Moyenne" -> "moyenne"
      [] s = "Forte" -> "forte"
      [] OTHER -> s

\* Faulty variant: a missing profile is taken for the most cautious one.
SensitivityOf_DefaultForte(participant_row) ==
    IF participant_row /= NoProfile THEN StrStrip(participant_row.sensitivity) ELSE "Forte"

\* sensitivity = "" unless participant_row is not None and not empty.
SensitivityOf(participant_row) ==
    IF participant_row /= NoProfile THEN StrStrip(participant_row.sensitivity) ELSE ""

(***************************************************************************)
(* Rule engine of Cafe1.py: the `today` list of build_recommendations.     *)
(* Each `if` appends its message when its condition holds; the fallback is *)
(* appended when the list is still empty.                                  *)
(***************************************************************************)
When(cond, msg) == IF cond THEN <<msg>> ELSE <<>>

OrFallback(today) == IF today = <<>> THEN <<"fallback">> ELSE today

\* Faulty variant: the two cardiac rules are chained (if / elif), so the
\* palpitations message is suppressed by a high dose.
TodayRules_Elif(latest_row, sensitivity) ==
    LET caf == safe_float(latest_row.caffeine_mg_total, 0)
        last_h == safe_int(latest_row.last_caffeine_hour, 0)
        sleep_h == safe_float(latest_row.sleep_hours, 0)
        anxiety == safe_int(latest_row.anxiety_1_10, 0)
        stress == safe_int(latest_row.stress_1_10, 0)
        palpitations == safe_int(latest_row.palpitations, 0)
        headache == safe_int(latest_row.headache, 0)
        irritability == safe_int(latest_row.irritability, 0)
        digestive == safe_int(latest_row.digestive, 0)
    IN  OrFallback(
               When(last_h >= 17 /\ caf >= Fx(100), "late")
            \o When(sleep_h < Fx(7), "sleep")
            \o When(caf > Fx(200), "heart200")
            \o When(~(caf > Fx(200)) /\ palpitations = 1, "palpitations")
            \o When(Fx(80) <= caf /\ caf <= Fx(150), "band")
            \o When(caf > Fx(200), "focus200")
            \o When(anxiety >= 7 /\ caf >= Fx(150), "anxiety")
            \o When(stress >= 7 /\ caf >= Fx(150), "stress")
            \o When(headache = 1, "headache")
            \o When(irritability = 1, "irritability")
            \o When(digestive = 1, "digestive")
            \o When(Lower(sensitivity) = "forte" /\ caf >= Fx(150), "sensForte")
            \o When(Lower(sensitivity) = "faible" /\ caf > Fx(300), "sensFaible"))

\* Faulty variant: the sleep rule is evaluated after the first dose rule.
TodayRules_Swapped(latest_row, sensitivity) ==
    LET caf == safe_float(latest_row.caffeine_mg_total, 0)
        last_h == safe_int(latest_row.last_caffeine_hour, 0)
        sleep_h == safe_float(latest_row.sleep_hours, 0)
        anxiety == safe_int(latest_row.anxiety_1_10, 0)
        stress == safe_int(latest_row.stress_1_10, 0)
        palpitations == safe_int(latest_row.palpitations, 0)
        headache == safe_int(latest_row.headache, 0)
        irritability == safe_int(latest_row.irritability, 0)
        digestive == safe_int(latest_row.digestive, 0)
    IN  OrFallback(
               When(last_h >= 17 /\ caf >= Fx(100), "late")
            \o When(caf > Fx(200), "heart200")
            \o When(sleep_h < Fx(7), "sleep")
            \o When(palpitations = 1, "palpitations")
            \o When(Fx(80) <= caf /\ caf <= Fx(150), "band")
            \o When(caf > Fx(200), "focus200")
            \o When(anxiety >= 7 /\ caf >= Fx(150), "anxiety")
            \o When(stress >= 7 /\ caf >= Fx(150), "stress")
            \o When(headache = 1, "headache")
            \o When(irritability = 1, "irritability")
            \o When(digestive = 1, "digestive")
            \o When(Lower(sensitivity) = "forte" /\ caf >= Fx(150), "sensForte")
            \o When(Lower(sensitivity) = "faible" /\ caf > Fx(300), "sensFaible"))

\* Cafe1.py:210-220 and 236-322.
TodayRules(latest_row, sensitivity) ==
    LET caf == safe_float(latest_row.caffeine_mg_total, 0)
        last_h == safe_int(latest_row.last_caffeine_hour, 0)
        sleep_h == safe_float(latest_row.sleep_hours, 0)
        anxiety == safe_int(latest_row.anxiety_1_10, 0)
        stress == safe_int(latest_row.stress_1_10, 0)
        palpitations == safe_int(latest_row.palpitations, 0)
        headache == safe_int(latest_row.headache, 0)
        irritability == safe_int(latest_row.irritability, 0)
        digestive == safe_int(latest_row.digestive, 0)
    IN  OrFallback(
               When(last_h >= 17 /\ caf >= Fx(100), "late")
            \o When(sleep_h < Fx(7), "sleep")
            \o When(caf > Fx(200), "heart200")
            \o When(palpitations = 1, "palpitations")
            \o When(Fx(80) <= caf /\ caf <= Fx(150), "band")
            \o When(caf > Fx(200), "focus200")
            \o When(anxiety >= 7 /\ caf >= Fx(150), "anxiety")
            \o When(stress >= 7 /\ caf >= Fx(150), "stress")
            \o When(headache = 1, "headache")
            \o When(irritability = 1, "irritability")
            \o When(digestive = 1, "digestive")
            \o When(Lower(sensitivity) = "forte" /\ caf >= Fx(150), "sensForte")
            \o When(Lower(sensitivity) = "faible" /\ caf > Fx(300), "sensFaible"))

\* CafeLamiaa.py:200-210 and 224-289.
TodayRules_Lamiaa(latest_row, sensitivity) ==
    LET caf == safe_float(latest_row.caffeine_mg_total, 0)
        last_h == safe_int(latest_row.last_caffeine_hour, 0)
        sleep_h == safe_float(latest_row.sleep_hours, 0)
        anxiety == safe_int(latest_row.anxiety_1_10, 0)
        stress == safe_int(latest_row.stress_1_10, 0)
        palpitations == safe_int(latest_row.palpitations, 0)
        headache == safe_int(latest_row.headache, 0)
        irritability == safe_int(latest_row.irritability, 0)
        digestive == safe_int(latest_row.digestive, 0)
    IN  OrFallback(
               When(last_h >= 17 /\ caf >= Fx(100), "late")
            \o When(sleep_h < Fx(7), "sleep")
            \o When(caf > Fx(200), "heart200")
            \o When(palpitations = 1, "palpitations")
            \o When(Fx(80) <= caf /\ caf <= Fx(150), "band")
            \o When(caf > Fx(200), "focus200")
            \o When(anxiety >= 7 /\ caf >= Fx(150), "anxiety")
            \o When(stress >= 7 /\ caf >= Fx(150), "stress")
            \o When(headache = 1, "headache")
            \o When(irritability = 1, "irritability")
            \o When(digestive = 1, "digestive")
            \o When(Lower(sensitivity) = "forte" /\ caf >= Fx(150), "sensForte")
            \o When(Lower(sensitivity) = "faible" /\ caf > Fx(300), "sensFaible"))

\* Comparisons of a float that may be NaN with the number n: false on NaN.
FGt(x, n) == x.k = "num" /\ x.v > n
FGe(x, n) == x.k = "num" /\ x.v >= n
FLt(x, n) == x.k = "num" /\ x.v < n

(***************************************************************************)
(* Trend analyzer of Cafe1.py: the `patterns` list of                      *)
(* build_recommendations, over df.tail(7).                                 *)
(***************************************************************************)
\* pd.to_numeric(x, errors="coerce"): text that is no number becomes NaN.
to_numeric(x) == IF x.k = "num" THEN x ELSE NaN

\* df.sort_values("date"): ascending by date, rows of one date in file order.
RECURSIVE InsertByDate(_, _)
InsertByDate(sorted, row) ==
    IF sorted = <<>> THEN <<row>>
    ELSE IF sorted[Len(sorted)].date <= row.date THEN Append(sorted, row)
    ELSE Append(InsertByDate(SubSeq(sorted, 1, Len(sorted) - 1), row), sorted[Len(sorted)])

RECURSIVE sort_values(_)
sort_values(df) ==
    IF df = <<>> THEN <<>>
    ELSE InsertByDate(sort_values(SubSeq(df, 1, Len(df) - 1)), df[Len(df)])

\* df.tail(n)
tail(df, n) == IF Len(df) <= n THEN df ELSE SubSeq(df, Len(df) - n + 1, Len(df))

\* (column < / > / >= n).sum() over the rows of a frame, NaN never counted.
CountRows(df, Holds(_)) == Cardinality({i \in 1..Len(df) : Holds(df[i])})

FaibleBin == "Faible (<100)"
MoyenBin == "Moyen (100-200)"
EleveBin == "Eleve (>200)"
NoBin == "NaN"
CafBins == <<FaibleBin, MoyenBin, EleveBin>>

\* pd.cut(x, bins=[-1, 99, 200, 10_000]): the intervals (-1, 99], (99, 200]
\* and (200, 10000]; NaN outside them and for NaN.
cut(x) ==
    IF x.k /= "num" THEN NoBin
    ELSE IF Fx(-1) < x.v /\ x.v <= Fx(99) THEN FaibleBin
    ELSE IF Fx(99) < x.v /\ x.v <= Fx(200) THEN MoyenBin
    ELSE IF Fx(200) < x.v /\ x.v <= Fx(10000) THEN EleveBin
    ELSE NoBin

RECURSIVE SumCells(_)
SumCells(cells) ==
    IF cells = <<>> THEN 0 ELSE cells[1].v + SumCells(Tail(cells))

\* One row of the groupby("caf_bin", observed=True).agg(...) frame: the mean of
\* sleep_quality_1_5 over the group's numeric cells as the fraction
\* sum / count (count = 0: the mean is NaN), and n, the size of the group.
GroupOf(last7, bin) ==
    LET rows == SelectSeq(last7, LAMBDA r : cut(to_numeric(r.caffeine_mg_total)) = bin)
        qs == SelectSeq([i \in 1..Len(rows) |-> to_numeric(rows[i].sleep_quality_1_5)],
                        LAMBDA c : c.k = "num")
    IN  [caf_bin |-> bin, n |-> Len(rows), q_sum |-> SumCells(qs), q_count |-> Len(qs)]

\* a mean formatted with :.2f, in hundredths
Mean2f(g) == (2 * g.q_sum + g.q_count) \div (2 * g.q_count)

PatternMsg(msg, n) ==
    [msg |-> msg, n |-> n, best |-> {}, best_q |-> 0, worst |-> {}, worst_q |-> 0]

\* The comparison message: the bins with the highest and with the lowest mean
\* sleep quality among the groups whose mean is defined (dropna); bins of
\* equal mean are named together, the sort picks one of them.
Comparison(g) ==
    LET valid == SelectSeq(g, LAMBDA x : x.q_count > 0)
        Above(x, y) == x.q_sum * y.q_count >= y.q_sum * x.q_count
        best == {i \in 1..Len(valid) : \A j \in 1..Len(valid) : Above(valid[i], valid[j])}
        worst == {i \in 1..Len(valid) : \A j \in 1..Len(valid) : Above(valid[j], valid[i])}
    IN  IF valid = <<>> THEN <<>>   \* iloc[0] raises IndexError: except, pass
        ELSE << [msg |-> "compare", n |-> 0,
                 best |-> {valid[i].caf_bin : i \in best},
                 best_q |-> Mean2f(valid[CHOOSE i \in best : TRUE]),
                 worst |-> {valid[i].caf_bin : i \in worst},
                 worst_q |-> Mean2f(valid[CHOOSE i \in worst : TRUE])] >>

\* Faulty variant: no floor of three records, counters reported from two days.
Patterns_FromTwoDays(df) ==
    LET last7 == tail(df, 7)
        LowSleep(r) == FLt(to_numeric(r.sleep_hours), Fx(7))
        HighCaf(r) == FGt(to_numeric(r.caffeine_mg_total), Fx(200))
        Late(r) == FGe(to_numeric(r.last_caffeine_hour), Fx(17))
        low_sleep_days == CountRows(last7, LowSleep)
        high_caf_days == CountRows(last7, HighCaf)
        late_days == CountRows(last7, Late)
        patterns ==
               When(high_caf_days >= 2, PatternMsg("high", high_caf_days))
            \o When(late_days >= 2, PatternMsg("late", late_days))
            \o When(low_sleep_days >= 2, PatternMsg("lowsleep", low_sleep_days))
    IN  IF patterns = <<>> THEN <<PatternMsg("notrend", 0)>> ELSE patterns

\* Cafe1.py:325-381.
Patterns(df) ==
    LET last7 == tail(df, 7)
        LowSleep(r) == FLt(to_numeric(r.sleep_hours), Fx(7))
        HighCaf(r) == FGt(to_numeric(r.caffeine_mg_total), Fx(200))
        Late(r) == FGe(to_numeric(r.last_caffeine_hour), Fx(17))
        low_sleep_days == CountRows(last7, LowSleep)
        high_caf_days == CountRows(last7, HighCaf)
        late_days == CountRows(last7, Late)
        g == SelectSeq([b \in 1..Len(CafBins) |-> GroupOf(last7, CafBins[b])],
                       LAMBDA x : x.n > 0)
        n_sum == SumCells([i \in 1..Len(g) |-> [v |-> g[i].n]])
        patterns ==
            IF Len(last7) >= 3
            THEN   When(high_caf_days >= 3, PatternMsg("high", high_caf_days))
                \o When(late_days >= 3, PatternMsg("late", late_days))
                \o When(low_sleep_days >= 3, PatternMsg("lowsleep", low_sleep_days))
                \o (IF g /= <<>> /\ n_sum >= 5 THEN Comparison(g) ELSE <<>>)
            ELSE <<>>
    IN  IF patterns = <<>> THEN <<PatternMsg("notrend", 0)>> ELSE patterns

\* The caf_bin column that pd.cut adds to the window, next to the totals.
CafBinColumn(df) ==
    [i \in 1..Len(df) |->
        [total |-> to_numeric(df[i].caffeine_mg_total),
         sleep_quality_1_5 |-> to_numeric(df[i].sleep_quality_1_5),
         caf_bin |-> cut(to_numeric(df[i].caffeine_mg_total))]]

\* CafeLamiaa.py:291-311: the counters over df.tail(7), no bin comparison.
Patterns_Lamiaa(df) ==
    LET last7 == tail(df, 7)
        LowSleep(r) == FLt(to_numeric(r.sleep_hours), Fx(7))
        HighCaf(r) == FGt(to_numeric(r.caffeine_mg_total), Fx(200))
        Late(r) == FGe(to_numeric(r.last_caffeine_hour), Fx(17))
        low_sleep_days == CountRows(last7, LowSleep)
        high_caf_days == CountRows(last7, HighCaf)
        late_days == CountRows(last7, Late)
        patterns ==
            IF Len(last7) >= 3
            THEN   When(high_caf_days >= 3, PatternMsg("high", high_caf_days))
                \o When(late_days >= 3, PatternMsg("late", late_days))
                \o When(low_sleep_days >= 3, PatternMsg("lowsleep", low_sleep_days))
            ELSE <<>>
    IN  IF patterns = <<>> THEN <<PatternMsg("notrend", 0)>> ELSE patterns

(***************************************************************************)
(* Reporter of Cafe1.py: build_recommendations.                            *)
(***************************************************************************)
Entry(tag, val) == [tag |-> tag, val |-> val]

Summary(latest_row, sensitivity) ==
    LET caf == safe_float(latest_row.caffeine_mg_total, 0)
    IN  << Entry("Derniere date", <<latest_row.date>>),
           Entry("Cafeine totale", <<IntOf(caf), caffeine_level(caf)>>),
           Entry("Derniere prise", <<safe_int(latest_row.last_caffeine_hour, 0)>>),
           Entry("Sommeil", <<safe_float(latest_row.sleep_hours, 0),
                              safe_int(latest_row.sleep_quality_1_5, 0)>>),
           Entry("Anxiete Stress Concentration",
                 <<safe_int(latest_row.anxiety_1_10, 0), safe_int(latest_row.stress_1_10, 0),
                   safe_int(latest_row.focus_1_10, 0)>>) >>
        \o (IF sensitivity /= "" THEN <<Entry("Sensibilite declaree", <<sensitivity>>)>>
            ELSE <<>>)

\* Faulty variant: the latest row is taken in file order, without the sort.
build_recommendations_Unsorted(participant_row, logs_df) ==
    IF logs_df = <<>>
    THEN [summary |-> <<Entry("Aucune donnee", <<>>)>>, today |-> <<>>, patterns |-> <<>>]
    ELSE LET latest_row == logs_df[Len(logs_df)]
             sensitivity == SensitivityOf(participant_row)
         IN  [summary |-> Summary(latest_row, sensitivity),
              today |-> TodayRules(latest_row, sensitivity),
              patterns |-> Patterns(logs_df)]

\* Faulty variant: an empty history still gets the trend fallback message.
build_recommendations_EmptyTrend(participant_row, logs_df) ==
    IF logs_df = <<>>
    THEN [summary |-> <<Entry("Aucune donnee", <<>>)>>, today |-> <<>>,
          patterns |-> <<PatternMsg("notrend", 0)>>]
    ELSE LET df == sort_values(logs_df)
             latest_row == df[Len(df)]
             sensitivity == SensitivityOf(participant_row)
         IN  [summary |-> Summary(latest_row, sensitivity),
              today |-> TodayRules(latest_row, sensitivity),
              patterns |-> Patterns(df)]

build_recommendations(participant_row, logs_df) ==
    IF logs_df = <<>>
    THEN [summary |-> <<Entry("Aucune donnee", <<>>)>>, today |-> <<>>, patterns |-> <<>>]
    ELSE LET df == sort_values(logs_df)
             latest_row == df[Len(df)]
             sensitivity == SensitivityOf(participant_row)
         IN  [summary |-> Summary(latest_row, sensitivity),
              today |-> TodayRules(latest_row, sensitivity),
              patterns |-> Patterns(df)]

\* CafeLamiaa.py:189-313: the same report with that file's rule list and its
\* trend list.
build_recommendations_Lamiaa(participant_row, logs_df) ==
    IF logs_df = <<>>
    THEN [summary |-> <<Entry("Aucune donnee", <<>>)>>, today |-> <<>>, patterns |-> <<>>]
    ELSE LET df == sort_values(logs_df)
             latest_row == df[Len(df)]
             sensitivity == SensitivityOf(participant_row)
         IN  [summary |-> Summary(latest_row, sensitivity),
              today |-> TodayRules_Lamiaa(latest_row, sensitivity),
              patterns |-> Patterns_Lamiaa(df)]

(***************************************************************************)
(* Rule engine of cafe.py: recommendations_for_row.  float(x or 0) keeps   *)
(* a NaN (every comparison with it is false) and raises on text;           *)
(* int(x or 0) raises on both.                                             *)
(***************************************************************************)
\* float(x or 0) raises ValueError.
FloatRaises(x) == x.k = "str"
\* int(x or 0) raises ValueError.
IntRaises(x) == x.k \in {"str", "nan"}

recommendations_for_row(row) ==
    LET caf == row.caffeine_mg_total
        last_h == row.last_caffeine_hour
        sleep_h == row.sleep_hours
        anxiety == row.anxiety_1_10
        stress == row.stress_1_10
        raises == \/ FloatRaises(caf) \/ FloatRaises(sleep_h) \/ FloatRaises(anxiety)
                  \/ FloatRaises(stress) \/ IntRaises(row.palpitations)
        palpitations == IntOf(row.palpitations.v)
        \* int(float(last_h)) inside try / except: a failure skips the rule
        late == last_h.k = "num" /\ IntOf(last_h.v) >= 17 /\ FGe(caf, Fx(100))
        recs ==    When(FGt(caf, Fx(200)), "heart200")
                \o When(late, "late")
                \o When(FLt(sleep_h, Fx(7)), "sleep")
                \o When(FGe(anxiety, Fx(7)) /\ FGe(caf, Fx(150)), "anxiety")
                \o When(FGe(stress, Fx(7)) /\ FGe(caf, Fx(150)), "stress")
                \o When(palpitations = 1, "palpitations")
    IN  IF raises THEN [raised |-> TRUE, recs |-> <<>>]
        ELSE [raised |-> FALSE, recs |-> OrFallback(recs)]

(***************************************************************************)
(* Trend analyzer of cafe.py: weekly_insights, over the whole frame it is  *)
(* given.  The value of a correlation coefficient is not represented: a    *)
(* correlation message is named by the pair it is about.                   *)
(***************************************************************************)
\* The comparison message of weekly_insights, which also names the sizes of
\* the two groups.
WeeklyComparison(valid) ==
    LET Above(x, y) == x.q_sum * y.q_count >= y.q_sum * x.q_count
        best == {i \in 1..Len(valid) : \A j \in 1..Len(valid) : Above(valid[i], valid[j])}
        worst == {i \in 1..Len(valid) : \A j \in 1..Len(valid) : Above(valid[j], valid[i])}
    IN  [msg |-> "compare", n |-> 0,
         best |-> {valid[i].caf_bin : i \in best},
         best_q |-> Mean2f(valid[CHOOSE i \in best : TRUE]),
         worst |-> {valid[i].caf_bin : i \in worst},
         worst_q |-> Mean2f(valid[CHOOSE i \in worst : TRUE]),
         best_n |-> {valid[i].n : i \in best},
         worst_n |-> {valid[i].n : i \in worst}]

\* Faulty variant: nothing is said when no insight could be generated.
weekly_insights_NoFallback(logs_df) ==
    IF Len(logs_df) < 5 THEN <<PatternMsg("notenough5", 0)>>
    ELSE LET g == SelectSeq([b \in 1..Len(CafBins) |-> GroupOf(logs_df, CafBins[b])],
                            LAMBDA x : x.n > 0)
             valid == SelectSeq(g, LAMBDA x : x.q_count > 0)
         IN  IF g /= <<>>
             THEN   (IF Len(valid) >= 2 THEN <<WeeklyComparison(valid)>> ELSE <<>>)
                 \o << PatternMsg("corr_sleep_quality", 0),
                       PatternMsg("corr_sleep_hours", 0),
                       PatternMsg("corr_anxiety", 0) >>
             ELSE <<>>

weekly_insights(logs_df) ==
    IF Len(logs_df) < 5 THEN <<PatternMsg("notenough5", 0)>>
    ELSE LET g == SelectSeq([b \in 1..Len(CafBins) |-> GroupOf(logs_df, CafBins[b])],
                            LAMBDA x : x.n > 0)
             valid == SelectSeq(g, LAMBDA x : x.q_count > 0)
             insights ==
                 IF g /= <<>>
                 THEN   (IF Len(valid) >= 2 THEN <<WeeklyComparison(valid)>> ELSE <<>>)
                     \o << PatternMsg("corr_sleep_quality", 0),
                           PatternMsg("corr_sleep_hours", 0),
                           PatternMsg("corr_anxiety", 0) >>
                 ELSE <<>>
         IN  IF insights = <<>> THEN <<PatternMsg("noinsights", 0)>> ELSE insights

(***************************************************************************)
(* The metric calculator called on its own: Init draws the call, one       *)
(* action per function applies it.                                         *)
(***************************************************************************)
SleepCall(fn, bed, wake) ==
    [fn |-> fn, bed |-> bed, wake |-> wake, mg |-> 0, drink_qty |-> <<>>, form |-> FALSE]
LevelCall(fn, mg) ==
    [fn |-> fn, bed |-> 0, wake |-> 0, mg |-> mg, drink_qty |-> <<>>, form |-> FALSE]
TotalCall(drink_qty, form) ==
    [fn |-> "compute_caffeine_total", bed |-> 0, wake |-> 0, mg |-> 0,
     drink_qty |-> drink_qty, form |-> form]

\* Totals handed to the classifiers: n mg, n.01, n.90 and n.99 mg.
LevelInputs == {Fx(n) + f : n \in 0..MaxLevelMg, f \in {0, 1, 90, 99}}

\* A dict handed to compute_caffeine_total: distinct keys, in any order.
DictEntries ==
    [drink : {CAFFEINE_CATALOG[i].drink : i \in 1..MaxDictDrinks}, qty : 0..MaxQty]
DictInputs(n) ==
    {d \in [1..n -> DictEntries] :
        \A i, j \in 1..Len(d) : i < j => d[i].drink /= d[j].drink}

\* The dict the daily_entry form builds: one number_input per catalog item,
\* in catalog order (Cafe1.py:484-497), q[i] the quantity typed for item i.
FormDrinkQty(q) ==
    [i \in 1..Len(CAFFEINE_CATALOG) |-> [drink |-> CAFFEINE_CATALOG[i].drink, qty |-> q[i]]]

\* Times of day given to st.time_input, in minutes after midnight.
TimeInputs == {h * 60 + m : h \in HOURS, m \in {0, 20}}

InitMetrics ==
    /\ \/ \E fn \in {"compute_sleep_hours_from_hours",
                      "compute_sleep_hours_from_hours_Lamiaa"}, b \in HOURS, w \in HOURS :
              call = SleepCall(fn, b, w)
       \/ \E b \in TimeInputs, w \in TimeInputs : call = SleepCall("compute_sleep_hours", b, w)
       \/ \E fn \in {"caffeine_level", "risk_level"}, mg \in LevelInputs :
              call = LevelCall(fn, mg)
       \/ \E n \in 0..MaxItems : \E d \in DictInputs(n) : call = TotalCall(d, FALSE)
       \/ \E q \in [1..Len(CAFFEINE_CATALOG) -> 0..MaxQty] :
              call = TotalCall(FormDrinkQty(q), TRUE)
    /\ result = NoResult
    /\ RuleIdle
    /\ StoreIdle
    /\ TrendIdle
    /\ AppIdle

SleepHours ==
    /\ call.fn = "compute_sleep_hours_from_hours"
    /\ ~result.done
    /\ result' = [NoResult EXCEPT !.done = TRUE,
                     !.hours = compute_sleep_hours_from_hours(call.bed, call.wake)]
    /\ UNCHANGED <<call, ruleVars, storeVars, trendVars, appVars>>

SleepHoursLamiaa ==
    /\ call.fn = "compute_sleep_hours_from_hours_Lamiaa"
    /\ ~result.done
    /\ result' = [NoResult EXCEPT !.done = TRUE,
                     !.hours = compute_sleep_hours_from_hours_Lamiaa(call.bed, call.wake)]
    /\ UNCHANGED <<call, ruleVars, storeVars, trendVars, appVars>>

\* cafe.py: the clock is read twice inside the call; midnight may pass
\* between the two reads.
SleepHoursCafe ==
    /\ call.fn = "compute_sleep_hours"
    /\ ~result.done
    /\ \E today \in 1..MaxDate, later \in 0..1 :
        result' = [NoResult EXCEPT !.done = TRUE, !.midnight = (later = 1),
                      !.hours = compute_sleep_hours(call.bed, call.wake, today, today + later)]
    /\ UNCHANGED <<call, ruleVars, storeVars, trendVars, appVars>>

CaffeineLevel ==
    /\ call.fn = "caffeine_level"
    /\ ~result.done
    /\ result' = [NoResult EXCEPT !.done = TRUE, !.level = caffeine_level(call.mg)]
    /\ UNCHANGED <<call, ruleVars, storeVars, trendVars, appVars>>

RiskLevel ==
    /\ call.fn = "risk_level"
    /\ ~result.done
    /\ result' = [NoResult EXCEPT !.done = TRUE, !.level = risk_level(call.mg)]
    /\ UNCHANGED <<call, ruleVars, storeVars, trendVars, appVars>>

CaffeineTotal ==
    /\ call.fn = "compute_caffeine_total"
    /\ ~result.done
    /\ LET r == compute_caffeine_total(call.drink_qty)
       IN  result' = [NoResult EXCEPT !.done = TRUE, !.total = r.total, !.detail = r.detail]
    /\ UNCHANGED <<call, ruleVars, storeVars, trendVars, appVars>>

NextMetrics ==
    \/ SleepHours
    \/ SleepHoursLamiaa
    \/ SleepHoursCafe
    \/ CaffeineLevel
    \/ RiskLevel
    \/ CaffeineTotal

SpecMetrics == InitMetrics /\ [][NextMetrics]_vars

(***************************************************************************)
(* Properties of the metric calculator (checked under SpecMetrics).        *)
(***************************************************************************)
IsSleepCall ==
    call.fn \in {"compute_sleep_hours_from_hours", "compute_sleep_hours_from_hours_Lamiaa"}
IsLevelCall == call.fn \in {"caffeine_level", "risk_level"}
IsTotalCall == call.fn = "compute_caffeine_total"

\* C7: for all bed and wake hours in 0..23 the sleep duration is wake - bed
\* when wake > bed and wake + 24 - bed when wake <= bed; (23, 7) gives 8 h,
\* (7, 23) gives 16 h and bed = wake gives 24 h, never 0.
C7_SleepDuration ==
    (IsSleepCall /\ result.done) =>
        /\ call.wake > call.bed => result.hours = Fx(call.wake - call.bed)
        /\ call.wake <= call.bed => result.hours = Fx(call.wake + 24 - call.bed)
        /\ (call.bed = 23 /\ call.wake = 7) => result.hours = Fx(8)
        /\ (call.bed = 7 /\ call.wake = 23) => result.hours = Fx(16)
        /\ call.bed = call.wake => (result.hours = Fx(24) /\ result.hours /= 0)

C7_Witness ==
    /\ call.fn = "compute_sleep_hours_from_hours"
    /\ call.bed = 7 /\ call.wake = 7
    /\ result.done /\ result.hours = Fx(24)

\* C8: every total gets exactly one level, Low below 100 mg, Medium from 100
\* to 200 mg inclusive, High above 200 mg; 99.9 is Low, 100 and 200 are
\* Medium, 200.01 is High.
C8_IntakeLevel ==
    (IsLevelCall /\ result.done) =>
        /\ result.level \in {Faible, Moyen, Eleve}
        /\ result.level = Faible <=> call.mg < Fx(100)
        /\ result.level = Moyen <=> (Fx(100) <= call.mg /\ call.mg <= Fx(200))
        /\ result.level = Eleve <=> call.mg > Fx(200)
        /\ call.mg = 9990 => result.level = Faible
        /\ call.mg \in {Fx(100), Fx(200)} => result.level = Moyen
        /\ call.mg = 20001 => result.level = Eleve

C8_Witness ==
    /\ call.fn = "caffeine_level" /\ call.mg = 20001
    /\ result.done /\ result.level = Eleve

\* The quantity a mapping gives for a drink (0 when the drink is not a key).
QtyOf(drink_qty, drink) ==
    IF \E i \in 1..Len(drink_qty) : drink_qty[i].drink = drink
    THEN drink_qty[CHOOSE i \in 1..Len(drink_qty) : drink_qty[i].drink = drink].qty
    ELSE 0

\* Sum over the catalog items 1..n of count x catalog[item].
RECURSIVE CatalogSum(_, _)
CatalogSum(drink_qty, n) ==
    IF n = 0 THEN 0
    ELSE CatalogSum(drink_qty, n - 1)
         + QtyOf(drink_qty, CAFFEINE_CATALOG[n].drink) * CAFFEINE_CATALOG[n].mg

A2B0C1 ==
    << [drink |-> CAFFEINE_CATALOG[1].drink, qty |-> 2],
       [drink |-> CAFFEINE_CATALOG[2].drink, qty |-> 0],
       [drink |-> CAFFEINE_CATALOG[3].drink, qty |-> 1] >>

\* C9: for every mapping from catalog items to non-negative counts the total is
\* the sum over the items of count x catalog[item]; a count of 0 adds nothing,
\* so {A:2, B:0, C:1} gives 2*mg(A) + 1*mg(C).
C9_TotalIntake ==
    (IsTotalCall /\ result.done) =>
        /\ result.total = CatalogSum(call.drink_qty, Len(CAFFEINE_CATALOG))
        /\ call.drink_qty = A2B0C1 =>
               result.total = 2 * CAFFEINE_CATALOG[1].mg + 1 * CAFFEINE_CATALOG[3].mg

C9_Witness ==
    /\ IsTotalCall /\ call.drink_qty = A2B0C1
    /\ result.done /\ result.total = 210

\* The drinks a breakdown names, in the order it names them.
DetailDrinks(detail) == [i \in 1..Len(detail) |-> detail[i].drink]

\* The drinks with a count > 0, in catalog iteration order.
CatalogOrderDrinks(drink_qty) ==
    LET kept == SelectSeq(CAFFEINE_CATALOG, LAMBDA c : QtyOf(drink_qty, c.drink) > 0)
    IN  [i \in 1..Len(kept) |-> kept[i].drink]

\* The drinks with a count > 0, in the order the mapping presents them.
InputOrderDrinks(drink_qty) ==
    LET kept == SelectSeq(drink_qty, LAMBDA e : e.qty > 0)
    IN  [i \in 1..Len(kept) |-> kept[i].drink]

\* C10 as stated: the breakdown lists exactly the items with count > 0, one
\* entry each, in catalog iteration order whatever order the input mapping
\* presents them in, and is empty when every count is 0.
C10_CatalogOrder ==
    (IsTotalCall /\ result.done) =>
        DetailDrinks(result.detail) = CatalogOrderDrinks(call.drink_qty)

\* C10 amended: the breakdown lists exactly the items with count > 0, one
\* entry each with its count and its mg, in the iteration order of the input
\* mapping; that is catalog order for the mapping the entry form builds; it
\* is empty when every count is 0.
C10_InputOrder ==
    (IsTotalCall /\ result.done) =>
        /\ DetailDrinks(result.detail) = InputOrderDrinks(call.drink_qty)
        /\ \A i \in 1..Len(result.detail) :
               /\ result.detail[i].qty = QtyOf(call.drink_qty, result.detail[i].drink)
               /\ result.detail[i].qty > 0
               /\ result.detail[i].mg =
                      result.detail[i].qty * CatalogGet(result.detail[i].drink, 0)
        /\ call.form => DetailDrinks(result.detail) = CatalogOrderDrinks(call.drink_qty)
        /\ (\A i \in 1..Len(call.drink_qty) : call.drink_qty[i].qty = 0)
               <=> result.detail = <<>>

\* A mapping that presents two drinks against catalog order, both counted.
C10_Witness ==
    /\ IsTotalCall /\ result.done
    /\ Len(call.drink_qty) = 2
    /\ call.drink_qty[1].drink = CAFFEINE_CATALOG[2].drink /\ call.drink_qty[1].qty > 0
    /\ call.drink_qty[2].drink = CAFFEINE_CATALOG[1].drink /\ call.drink_qty[2].qty > 0
    /\ DetailDrinks(result.detail) = <<CAFFEINE_CATALOG[2].drink, CAFFEINE_CATALOG[1].drink>>

(***************************************************************************)
(* The rule engines called on one latest row: Init draws the row and the   *)
(* profile, one action per application evaluates its engine.               *)
(***************************************************************************)
CafCells ==
    {NaN} \cup {Num(v) : v \in {7999, 8000, 9999, 10000, 15000, 15001,
                                20000, 20001, 25000, 30000, 30001}}
HourCells == {NaN} \cup {Num(Fx(h)) : h \in {16, 17, 18}}
SleepCells == {NaN, Bad} \cup {Num(Fx(h)) : h \in {6, 7}}
AnxietyCells == {NaN} \cup {Num(Fx(n)) : n \in {6, 7}}
StressCells == {Num(Fx(n)) : n \in {6, 7}}
FlagCells == {Num(Fx(0)), Num(Fx(1))}
PalpitationCells == {NaN} \cup FlagCells

RuleRows ==
    {Row(1, "P001", caf, last_h, sleep_h, Num(Fx(3)), stress, anxiety, Num(Fx(6)),
         palp, head, irrit, digest) :
        caf \in CafCells, last_h \in HourCells, sleep_h \in SleepCells,
        stress \in StressCells, anxiety \in AnxietyCells, palp \in PalpitationCells,
        head \in FlagCells, irrit \in FlagCells, digest \in FlagCells}

\* No profile, the three choices of the add_participant form, an empty cell.
RuleProfiles ==
    {NoProfile} \cup
    {[participant_id |-> "P001", sensitivity |-> sv] :
        sv \in {"Faible", "Moyenne", "Forte", "NaN"}}

InitRules ==
    /\ latest \in RuleRows
    /\ prow \in RuleProfiles
    /\ out = NoOut
    /\ MetricIdle
    /\ StoreIdle
    /\ TrendIdle
    /\ AppIdle

\* Cafe1.py page 3 on a one-row history.
Cafe1Recommend ==
    /\ out = NoOut
    /\ out' = [variant |-> "Cafe1", raised |-> FALSE,
               today |-> build_recommendations(prow, <<latest>>).today]
    /\ UNCHANGED <<latest, prow, metricVars, storeVars, trendVars, appVars>>

\* CafeLamiaa.py page 3 on a one-row history.
LamiaaRecommend ==
    /\ out = NoOut
    /\ out' = [variant |-> "CafeLamiaa", raised |-> FALSE,
               today |-> build_recommendations_Lamiaa(prow, <<latest>>).today]
    /\ UNCHANGED <<latest, prow, metricVars, storeVars, trendVars, appVars>>

\* cafe.py page 4: recs = recommendations_for_row(latest).
CafeRecommend ==
    /\ out = NoOut
    /\ LET r == recommendations_for_row(latest)
       IN  out' = [variant |-> "cafe", raised |-> r.raised, today |-> r.recs]
    /\ UNCHANGED <<latest, prow, metricVars, storeVars, trendVars, appVars>>

NextRules ==
    \/ Cafe1Recommend
    \/ LamiaaRecommend
    \/ CafeRecommend

SpecRules == InitRules /\ [][NextRules]_vars

(***************************************************************************)
(* Properties of the rule engines (checked under SpecRules).               *)
(***************************************************************************)
\* A field of the latest record, a missing or malformed one read as 0.
Field(x) == IF x.k = "num" THEN x.v ELSE 0
Flag(x) == IF x.k = "num" THEN IntOf(x.v) ELSE 0

\* The rule table, in its order.
RuleTable ==
    << "late", "sleep", "heart200", "palpitations", "band", "focus200", "anxiety",
       "stress", "headache", "irritability", "digestive", "sensForte", "sensFaible" >>

\* The predicate of each rule of the table on a record and a profile.
RuleHolds(rule, row, profile) ==
    LET total == Field(row.caffeine_mg_total)
        lastHour == Flag(row.last_caffeine_hour)
    IN  CASE rule = "late" -> lastHour >= 17 /\ total >= Fx(100)
          [] rule = "sleep" -> Field(row.sleep_hours) < Fx(7)
          [] rule = "heart200" -> total > Fx(200)
          [] rule = "palpitations" -> Flag(row.palpitations) = 1
          [] rule = "band" -> Fx(80) <= total /\ total <= Fx(150)
          [] rule = "focus200" -> total > Fx(200)
          [] rule = "anxiety" -> Flag(row.anxiety_1_10) >= 7 /\ total >= Fx(150)
          [] rule = "stress" -> Flag(row.stress_1_10) >= 7 /\ total >= Fx(150)
          [] rule = "headache" -> Flag(row.headache) = 1
          [] rule = "irritability" -> Flag(row.irritability) = 1
          [] rule = "digestive" -> Flag(row.digestive) = 1
          [] rule = "sensForte" ->
                 profile /= NoProfile /\ profile.sensitivity = "Forte" /\ total >= Fx(150)
          [] rule = "sensFaible" ->
                 profile /= NoProfile /\ profile.sensitivity = "Faible" /\ total > Fx(300)

\* The rules each application implements.
RulesOf(variant) ==
    IF variant = "cafe"
    THEN {"heart200", "late", "sleep", "anxiety", "stress", "palpitations"}
    ELSE SeqRange(RuleTable)

EvaluatedFull == out.variant \in {"Cafe1", "CafeLamiaa"}
Evaluated == out.variant \in {"Cafe1", "CafeLamiaa", "cafe"}
Emitted == SeqRange(out.today)

\* C1: in build_recommendations (Cafe1.py, CafeLamiaa.py), for every latest
\* record and sensitivity, each rule of the table contributes its message to
\* `today` if and only if its own predicate holds, whatever the other rules do;
\* {total 250, lastHour 18, sleep 6} yields the late-intake, the sleep < 7 h and
\* both total > 200 messages.
C1_RulesIndependent ==
    EvaluatedFull =>
        /\ \A rule \in SeqRange(RuleTable) :
               rule \in Emitted <=> RuleHolds(rule, latest, prow)
        /\ (/\ latest.caffeine_mg_total = Num(Fx(250))
            /\ latest.last_caffeine_hour = Num(Fx(18))
            /\ latest.sleep_hours = Num(Fx(6)))
               => {"late", "sleep", "heart200", "focus200"} \subseteq Emitted

C1_Witness ==
    /\ out.variant = "Cafe1"
    /\ latest.caffeine_mg_total = Num(Fx(250))
    /\ latest.last_caffeine_hour = Num(Fx(18))
    /\ latest.sleep_hours = Num(Fx(6))
    /\ latest.palpitations = Num(Fx(1))
    /\ SubSeq(out.today, 1, 5) = <<"late", "sleep", "heart200", "palpitations", "focus200">>

\* The numeric fields an application's engine reads are all numbers.
Readable(variant, row) ==
    /\ \A col \in {"caffeine_mg_total", "last_caffeine_hour", "sleep_hours",
                   "anxiety_1_10", "stress_1_10", "palpitations"} : row[col].k = "num"
    /\ variant /= "cafe"
           => \A col \in {"headache", "irritability", "digestive"} : row[col].k = "num"

\* C2: for every non-empty history the rule engine's output holds the fallback
\* message if and only if no rule predicate holds for the latest record, and
\* then it is the only message; the fallback never comes with a rule message
\* and the output list is never empty.  (The predicates are evaluated where
\* the record gives every field; C2_Cafe1Only covers the other records.)
C2_Fallback ==
    Evaluated =>
        /\ ~out.raised
        /\ out.today /= <<>>
        /\ "fallback" \in Emitted => out.today = <<"fallback">>
        /\ Readable(out.variant, latest) =>
               ("fallback" \in Emitted
                    <=> \A rule \in RulesOf(out.variant) : ~RuleHolds(rule, latest, prow))

\* The position of a message in an order.
Pos(order, msg) == CHOOSE i \in 1..Len(order) : order[i] = msg

InOrder(order, msgs) ==
    \A i, j \in 1..Len(msgs) :
        (i < j /\ msgs[i] /= "fallback" /\ msgs[j] /= "fallback")
            => Pos(order, msgs[i]) < Pos(order, msgs[j])

\* C3 as stated: in every variant of the rule engine (Cafe1.py, CafeLamiaa.py,
\* cafe.py) the messages emitted appear in the order of the rule table.
C3_TableOrder == Evaluated => InOrder(RuleTable, out.today)

\* The order in which recommendations_for_row of cafe.py evaluates its rules.
CafeOrder == <<"heart200", "late", "sleep", "anxiety", "stress", "palpitations">>

\* C3 amended: build_recommendations of Cafe1.py and of CafeLamiaa.py emit
\* their messages in the order of the rule table; recommendations_for_row of
\* cafe.py emits its six messages in its own fixed order: total > 200, late
\* intake, sleep < 7 h, anxiety, stress, palpitations.
C3_OrderPerVariant ==
    /\ EvaluatedFull => InOrder(RuleTable, out.today)
    /\ out.variant = "cafe" => InOrder(CafeOrder, out.today)

C3_Witness ==
    /\ out.variant = "cafe"
    /\ out.today = <<"heart200", "late", "sleep", "palpitations">>

NotSensitivity(msg) == msg \notin {"sensForte", "sensFaible", "fallback"}

\* C5: with no participant profile build_recommendations raises no error and
\* neither sensitivity rule contributes a message, for every latest record
\* (totals >= 150 and > 300 included); every other rule fires exactly as it
\* does with a profile.
C5_NoProfile ==
    (EvaluatedFull /\ prow = NoProfile) =>
        /\ ~out.raised
        /\ "sensForte" \notin Emitted /\ "sensFaible" \notin Emitted
        /\ \A profile \in RuleProfiles \ {NoProfile} :
               SelectSeq(out.today, NotSensitivity)
                   = SelectSeq(build_recommendations(profile, <<latest>>).today,
                               NotSensitivity)

C5_Witness ==
    /\ out.variant = "Cafe1" /\ prow = NoProfile
    /\ latest.caffeine_mg_total = Num(30001)
    /\ "heart200" \in Emitted /\ "sensFaible" \notin Emitted

\* The record with every missing or malformed numeric field set to 0.
Defaulted(row) ==
    [col \in DOMAIN row |->
        IF col \in {"date", "participant_id"} THEN row[col] ELSE Num(Field(row[col]))]

\* C6: evaluating the rule engine on a latest record whose numeric fields are
\* missing or malformed never raises, and each such field is read as its
\* default 0, in build_recommendations and in recommendations_for_row alike.
C6_ParseOrDefault ==
    Evaluated =>
        /\ ~out.raised
        /\ out.variant = "Cafe1"
               => out.today = build_recommendations(prow, <<Defaulted(latest)>>).today
        /\ out.variant = "CafeLamiaa"
               => out.today = build_recommendations_Lamiaa(prow, <<Defaulted(latest)>>).today
        /\ out.variant = "cafe"
               => out.today = recommendations_for_row(Defaulted(latest)).recs

\* What holds of the code: the same statement for build_recommendations alone.
C6_Cafe1Only ==
    EvaluatedFull =>
        /\ ~out.raised
        /\ out.variant = "Cafe1"
               => out.today = build_recommendations(prow, <<Defaulted(latest)>>).today
        /\ out.variant = "CafeLamiaa"
               => out.today = build_recommendations_Lamiaa(prow, <<Defaulted(latest)>>).today

\* What holds of the code: C2 for build_recommendations alone.
C2_Cafe1Only ==
    EvaluatedFull =>
        /\ out.today /= <<>>
        /\ "fallback" \in Emitted
               <=> \A rule \in RulesOf(out.variant) : ~RuleHolds(rule, latest, prow)
        /\ "fallback" \in Emitted => out.today = <<"fallback">>

\* What holds of the code: C2 for recommendations_for_row on the rows whose
\* fields it reads are all numbers.
C2_CafeWellFormed ==
    (/\ out.variant = "cafe"
     /\ \A col \in {"caffeine_mg_total", "last_caffeine_hour", "sleep_hours",
                    "anxiety_1_10", "stress_1_10", "palpitations"} :
            latest[col].k = "num") =>
        /\ ~out.raised
        /\ out.today /= <<>>
        /\ "fallback" \in Emitted
               <=> \A rule \in RulesOf(out.variant) : ~RuleHolds(rule, latest, prow)
        /\ "fallback" \in Emitted => out.today = <<"fallback">>

(***************************************************************************)
(* The application Cafe1.py: one session driving the pages over the two    *)
(* CSV files.  Every interaction reruns the script, so the report of page  *)
(* 3 is on display only until the next interaction.  The created_at stamp  *)
(* and the profile columns no handler reads are left out of the rows.      *)
(***************************************************************************)
Dates == 1..MaxDate

\* What can be typed in the "Participant ID" box, and .strip().upper() of it.
PidInputs == {"P001", " p001 ", "001", ""}
StripUpper(raw) ==
    CASE raw = " p001 " -> "P001"
      [] OTHER -> raw
\* .str.upper() of a stored identifier.
Upper(pid) ==
    CASE pid = " p001 " -> " P001 "
      [] OTHER -> pid

SensitivityChoices == {"Faible", "Moyenne", "Forte"}

\* The identifier texts that are integer literals, and str(int(text)).
IntLiterals == {"001", "1"}
IntStr(text) == IF text = "001" THEN "1" ELSE text

\* pd.read_csv on the participant_id column, then .astype(str): a column
\* whose cells are all integer literals is inferred as int64, so "001" comes
\* back as "1"; a column with any other text keeps every cell as written.
read_csv(file) ==
    IF file /= <<>> /\ \A i \in 1..Len(file) : file[i].participant_id \in IntLiterals
    THEN [i \in 1..Len(file) |-> [file[i] EXCEPT !.participant_id = IntStr(@)]]
    ELSE file

\* load_participants / load_logs: the file's rows with participant_id as a
\* string, upper-cased (dates are parsed back to the dates that were saved).
load_participants(file) ==
    LET df == read_csv(file)
    IN  [i \in 1..Len(df) |-> [df[i] EXCEPT !.participant_id = Upper(@)]]
load_logs(file) ==
    LET df == read_csv(file)
    IN  [i \in 1..Len(df) |-> [df[i] EXCEPT !.participant_id = Upper(@)]]
\* save_participants / save_logs: the frame written back, identifiers as
\* their texts, dates as ISO strings.
save_participants(df) == df
save_logs(df) == df

participant_ids(frame) == [i \in 1..Len(frame) |-> frame[i].participant_id]

\* Two fillings of the daily_entry form: the widgets' defaults with one
\* espresso, and a heavy late day.
AllZero == [i \in 1..Len(CAFFEINE_CATALOG) |-> 0]
EntryForms ==
    { [q |-> [AllZero EXCEPT ![1] = 1], last_caffeine_hour |-> 16, bed_hour |-> 23,
       wake_hour |-> 7, sleep_quality |-> 3, stress |-> 5, anxiety |-> 4, focus |-> 6,
       palpitations |-> FALSE, headache |-> FALSE, irritability |-> FALSE,
       digestive |-> FALSE],
      [q |-> [AllZero EXCEPT ![2] = 2, ![6] = 1], last_caffeine_hour |-> 18, bed_hour |-> 1,
       wake_hour |-> 7, sleep_quality |-> 2, stress |-> 7, anxiety |-> 8, focus |-> 4,
       palpitations |-> TRUE, headache |-> FALSE, irritability |-> FALSE,
       digestive |-> FALSE] }

\* int(True) = 1, int(False) = 0
IntOfBool(b) == IF b THEN 1 ELSE 0

\* new_row of the daily_entry handler (Cafe1.py:552-570, 578-596).
NewRow(pid, entry_date, form) ==
    LET caf == compute_caffeine_total(FormDrinkQty(form.q))
        sleep_h == compute_sleep_hours_from_hours(form.bed_hour, form.wake_hour)
    IN  Row(entry_date, pid, Num(Fx(caf.total)), Num(Fx(form.last_caffeine_hour)),
            Num(sleep_h), Num(Fx(form.sleep_quality)), Num(Fx(form.stress)),
            Num(Fx(form.anxiety)), Num(Fx(form.focus)),
            Num(Fx(IntOfBool(form.palpitations))), Num(Fx(IntOfBool(form.headache))),
            Num(Fx(IntOfBool(form.irritability))), Num(Fx(IntOfBool(form.digestive))))
        @@ [bed_hour |-> form.bed_hour, wake_hour |-> form.wake_hour,
            drinks_detail |-> caf.detail]

Init ==
    /\ participants = <<>>
    /\ logsFile = <<>>
    /\ pack = NoPack
    /\ flash = NoFlash
    /\ MetricIdle
    /\ RuleIdle
    /\ TrendIdle
    /\ AppIdle

Flash(kind, pid, date) == [kind |-> kind, pid |-> pid, date |-> date]

\* Page 1, form add_participant: an empty or an existing identifier is
\* refused with st.error, anything else is appended and saved.
AddParticipant ==
    /\ Len(participants) < MaxParticipants
    /\ \E raw \in PidInputs, sensitivity \in SensitivityChoices :
        LET frame == load_participants(participants)
            existing_ids == SeqRange(participant_ids(frame))
            pid == StripUpper(raw)
        IN  IF pid = "" THEN
                /\ flash' = Flash("id_required", "", 0)
                /\ UNCHANGED participants
            ELSE IF pid \in existing_ids THEN
                /\ flash' = Flash("id_exists", pid, 0)
                /\ UNCHANGED participants
            ELSE
                /\ participants' = save_participants(
                       Append(frame, [participant_id |-> pid, sensitivity |-> sensitivity]))
                /\ flash' = Flash("added", pid, 0)
    /\ pack' = NoPack
    /\ UNCHANGED <<logsFile, metricVars, ruleVars, trendVars, appVars>>

\* Page 2, form daily_entry: reload the log, refuse a row whose
\* (participant, date) is already there, else append the new row and save.
SubmitEntry ==
    /\ participants /= <<>>
    /\ Len(logsFile) < MaxLogs
    /\ \E i \in 1..Len(participants), entry_date \in Dates, form \in EntryForms :
        LET pid == participant_ids(load_participants(participants))[i]
            logs == load_logs(logsFile)
            dup == SelectSeq(logs, LAMBDA r : r.participant_id = pid /\ r.date = entry_date)
        IN  IF logs /= <<>> /\ dup /= <<>> THEN
                /\ flash' = Flash("duplicate", pid, entry_date)
                /\ UNCHANGED logsFile
            ELSE
                /\ logsFile' = save_logs(Append(logs, NewRow(pid, entry_date, form)))
                /\ flash' = Flash("saved", pid, entry_date)
    /\ pack' = NoPack
    /\ UNCHANGED <<participants, metricVars, ruleVars, trendVars, appVars>>

\* Page 3: the report for one participant over the chosen analysis period.
Recommend ==
    /\ participants /= <<>>
    /\ logsFile /= <<>>
    /\ \E i \in 1..Len(participants), start_date \in Dates, end_date \in Dates :
        LET logs == load_logs(logsFile)
            frame == load_participants(participants)
            pid == participant_ids(frame)[i]
            dfp == SelectSeq(logs, LAMBDA r : r.participant_id = pid)
            dff == SelectSeq(dfp, LAMBDA r : r.date >= start_date /\ r.date <= end_date)
            matching == SelectSeq(frame, LAMBDA x : x.participant_id = pid)
            profile == IF matching /= <<>> THEN matching[1] ELSE NoProfile
            rec == build_recommendations(profile, dff)
        IN  /\ start_date <= end_date
            /\ pack' = IF dfp = <<>> THEN NoPack
                       ELSE [shown |-> TRUE, pid |-> pid, start_date |-> start_date,
                             end_date |-> end_date, summary |-> rec.summary,
                             today |-> rec.today, patterns |-> rec.patterns]
    /\ flash' = NoFlash
    /\ UNCHANGED <<participants, logsFile, metricVars, ruleVars, trendVars, appVars>>

\* Page 4, "Supprimer la saisie": drop the rows of one (participant, date).
DeleteEntry ==
    /\ logsFile /= <<>>
    /\ \E i \in 1..Len(participants) :
        LET logs == load_logs(logsFile)
            del_pid == participant_ids(load_participants(participants))[i]
            pid_dates == {logs[k].date : k \in {k \in 1..Len(logs) :
                                                   logs[k].participant_id = del_pid}}
        IN  \E del_date \in pid_dates :
                /\ logsFile' = save_logs(SelectSeq(logs,
                       LAMBDA r : ~(r.participant_id = del_pid /\ r.date = del_date)))
                /\ flash' = Flash("deleted", del_pid, del_date)
    /\ pack' = NoPack
    /\ UNCHANGED <<participants, metricVars, ruleVars, trendVars, appVars>>

Next ==
    \/ AddParticipant
    \/ SubmitEntry
    \/ Recommend
    \/ DeleteEntry

Spec == Init /\ [][Next]_vars

(***************************************************************************)
(* The report of page 3 against the participant's whole history.           *)
(***************************************************************************)
\* The participant's rows in the log, and the one with the greatest date.
RecordsOf(pid) == SelectSeq(load_logs(logsFile), LAMBDA r : r.participant_id = pid)
MostRecent(pid) ==
    LET rows == RecordsOf(pid)
    IN  rows[CHOOSE i \in 1..Len(rows) : \A j \in 1..Len(rows) : rows[j].date <= rows[i].date]
ProfileOf(pid) ==
    LET matching == SelectSeq(load_participants(participants),
                              LAMBDA x : x.participant_id = pid)
    IN  IF matching /= <<>> THEN matching[1] ELSE NoProfile
InRange(r) == r.date >= pack.start_date /\ r.date <= pack.end_date

\* C4: the summary and the same-day advice of a displayed report are those of
\* the participant's most recent record by date, whatever analysis period was
\* chosen: a period that ends before that record does not change the record
\* the rule engine evaluates.  (Stated for the periods that hold at least one
\* record of the participant, where the engine does evaluate a record.)
C4_LatestWhateverRange ==
    (pack.shown /\ SelectSeq(RecordsOf(pack.pid), InRange) /= <<>>) =>
        LET sensitivity == SensitivityOf(ProfileOf(pack.pid))
        IN  /\ pack.summary = Summary(MostRecent(pack.pid), sensitivity)
            /\ pack.today = TodayRules(MostRecent(pack.pid), sensitivity)

\* Supporting fact: the report is that of the most recent record inside the
\* chosen period.
C4_LatestInRange ==
    (pack.shown /\ SelectSeq(RecordsOf(pack.pid), InRange) /= <<>>) =>
        LET sensitivity == SensitivityOf(ProfileOf(pack.pid))
            inside == SelectSeq(RecordsOf(pack.pid), InRange)
            last == inside[CHOOSE i \in 1..Len(inside) :
                               \A j \in 1..Len(inside) : inside[j].date <= inside[i].date]
        IN  /\ pack.summary = Summary(last, sensitivity)
            /\ pack.today = TodayRules(last, sensitivity)

(***************************************************************************)
(* The record store: keys of the log and of the participant list.          *)
(***************************************************************************)
\* The identifiers written in participants.csv, and the (identifier, date)
\* keys written in daily_logs.csv.
StoredIds == {participants[i].participant_id : i \in 1..Len(participants)}
StoredKeys == {<<logsFile[i].participant_id, logsFile[i].date>> : i \in 1..Len(logsFile)}

\* C18: starting from an empty log, after any sequence of record appends and
\* record deletes issued through the application by one session, the stored
\* log holds at most one record per (participant identifier, date) pair.
C18_OneRecordPerKey ==
    LET logs == load_logs(logsFile)
    IN  \A i, j \in 1..Len(logs) :
            (logs[i].participant_id = logs[j].participant_id /\ logs[i].date = logs[j].date)
                => i = j

\* Supporting fact: the log holds one record per key as long as no stored
\* identifier is an integer literal.
C18_OneRecordPerKeyTextIds ==
    (StoredIds \cap IntLiterals = {}) => C18_OneRecordPerKey

\* C19: appending a record whose (participant identifier, date) is already in
\* the store is rejected with a visible error, nothing is written and the
\* stored log is exactly what it was before the attempt.
C19_DuplicateRejected ==
    [][(flash'.kind \in {"saved", "duplicate"} /\ <<flash'.pid, flash'.date>> \in StoredKeys)
          => (flash'.kind = "duplicate" /\ logsFile' = logsFile)]_vars

\* Supporting fact: the same, as long as no stored identifier is an integer
\* literal.
C19_DuplicateRejectedTextIds ==
    [][(/\ StoredIds \cap IntLiterals = {}
        /\ flash'.kind \in {"saved", "duplicate"}
        /\ <<flash'.pid, flash'.date>> \in StoredKeys)
          => (flash'.kind = "duplicate" /\ logsFile' = logsFile)]_vars

\* No two stored participants share an identifier, and none has an empty one.
UniqueIds ==
    LET frame == load_participants(participants)
    IN  /\ \A i, j \in 1..Len(frame) :
               frame[i].participant_id = frame[j].participant_id => i = j
        /\ \A i \in 1..Len(frame) : frame[i].participant_id /= ""

\* An add whose trimmed, upper-cased identifier is already stored is refused
\* and leaves the participant list as it was.
AddRejectsStored ==
    /\ (flash'.kind \in {"added", "id_exists"} /\ flash'.pid \in StoredIds)
           => flash'.kind = "id_exists"
    /\ flash'.kind \in {"id_exists", "id_required"} => participants' = participants

\* C20: adding a participant whose identifier, trimmed and upper-cased, equals
\* an identifier already stored is rejected and leaves the participant list
\* unchanged; after any sequence of adds no two stored participants share an
\* identifier and none has an empty identifier.
C20_UniqueIdentifiers == []UniqueIds /\ [][AddRejectsStored]_vars

\* Supporting fact: the same, as long as no stored identifier is an integer
\* literal.
C20_UniqueTextIds ==
    /\ [](StoredIds \cap IntLiterals = {} => UniqueIds)
    /\ [][StoredIds \cap IntLiterals = {} => AddRejectsStored]_vars

(***************************************************************************)
(* The reporters called on a history: Init draws the frame and the         *)
(* profile, one action per application builds its report.                  *)
(***************************************************************************)
\* Kinds of day: short sleep only, high intake only, late intake only, a day
\* whose total, hour, sleep and quality cells cannot be read, and a day with
\* no sleep quality.
Day(date, caf, last_h, sleep_h, quality) ==
    Row(date, "P001", caf, last_h, sleep_h, quality, Num(Fx(5)), Num(Fx(4)), Num(Fx(6)),
        Num(Fx(0)), Num(Fx(0)), Num(Fx(0)), Num(Fx(0)))
ShortSleepDay == Day(0, Num(Fx(50)), Num(Fx(16)), Num(Fx(6)), Num(Fx(4)))
HighDay == Day(0, Num(Fx(250)), Num(Fx(16)), Num(Fx(8)), Num(Fx(2)))
LateDay == Day(0, Num(Fx(150)), Num(Fx(18)), Num(Fx(8)), Num(Fx(3)))
MissingDay == Day(0, NaN, NaN, Bad, NaN)
UnratedDay == Day(0, Num(Fx(150)), Num(Fx(16)), Num(Fx(8)), NaN)

DayKinds(n) ==
    IF n <= MaxMissingLen THEN {ShortSleepDay, HighDay, LateDay, MissingDay}
    ELSE {ShortSleepDay, HighDay, LateDay}

\* The order a history of n days is given in: by date, by date descending,
\* or the latest day first.
DateOrders(n) ==
    { [i \in 1..n |-> i], [i \in 1..n |-> n + 1 - i],
      [i \in 1..n |-> IF i = 1 THEN n ELSE i - 1] }

\* The history of n days of the given kinds, dated in the given order.
KindHistory(n, days, dates) == [i \in 1..n |-> [days[i] EXCEPT !.date = dates[i]]]

\* Totals around the edges of the bins: 99, 99.5, 100, 200, 200.01, 10000 and
\* 10001 mg, an empty cell and a text cell.
BinCells ==
    {NaN, Bad} \cup
    {Num(v) : v \in {0, 9900, 9950, 10000, 20000, 20001, 1000000, 1000100}}

EdgeHistories ==
    { << [ShortSleepDay EXCEPT !.date = 1, !.caffeine_mg_total = c1],
         [HighDay EXCEPT !.date = 2, !.caffeine_mg_total = c2],
         [LateDay EXCEPT !.date = 3] >> : c1 \in BinCells, c2 \in BinCells }
    \cup
    { << [ShortSleepDay EXCEPT !.date = 1, !.caffeine_mg_total = c1],
         [HighDay EXCEPT !.date = 2], [LateDay EXCEPT !.date = 3],
         [ShortSleepDay EXCEPT !.date = 4], [HighDay EXCEPT !.date = 5] >> :
         c1 \in BinCells }
    \cup
    { [i \in 1..5 |-> [UnratedDay EXCEPT !.date = i]] }

\* The profiles of the rule engine's inputs, and a row whose sensitivity is
\* the empty string.
ReportProfiles ==
    RuleProfiles \cup {[participant_id |-> "P001", sensitivity |-> ""]}

InitReports ==
    /\ \/ \E n \in 0..MaxHistory :
              \E days \in [1..n -> DayKinds(n)], dates \in DateOrders(n) :
                  /\ history = KindHistory(n, days, dates)
                  /\ prow \in IF n <= 1 THEN ReportProfiles ELSE {NoProfile}
       \/ history \in EdgeHistories /\ prow = NoProfile
    /\ report = NoReport
    /\ latest = NoRow
    /\ out = NoOut
    /\ MetricIdle
    /\ StoreIdle
    /\ AppIdle

\* Cafe1.py: build_recommendations(prow, history).
\* The frame objects one call of build_recommendations holds when it
\* returns, in creation order: object 1 is the caller's logs_df, each
\* non-inplace pandas call or .copy() makes a new object, and a column
\* assignment writes the object it is made on.
Coerce(frame) ==
    [i \in 1..Len(frame) |->
        [frame[i] EXCEPT !.caffeine_mg_total = to_numeric(@),
                         !.sleep_hours = to_numeric(@),
                         !.sleep_quality_1_5 = to_numeric(@),
                         !.anxiety_1_10 = to_numeric(@),
                         !.stress_1_10 = to_numeric(@)]]
AddCafBin(frame) ==
    [i \in 1..Len(frame) |-> frame[i] @@ [caf_bin |-> cut(frame[i].caffeine_mg_total)]]

\* Faulty variant: the frame is sorted in place (sort_values(inplace=True)),
\* so df is the caller's object.
build_recommendations_frames_InPlace(logs_df) ==
    IF logs_df = <<>> THEN <<logs_df>>
    ELSE LET h1 == <<logs_df>>
             df == 1
             h2 == [h1 EXCEPT ![df] = sort_values(@)]
             h3 == Append(h2, tail(h2[df], 7))
             last7 == Len(h3)
             h4 == [h3 EXCEPT ![last7] = Coerce(@)]
         IN  IF Len(h4[last7]) >= 3 THEN [h4 EXCEPT ![last7] = AddCafBin(@)] ELSE h4

\* df = logs_df.sort_values("date").copy(); last7 = df.tail(7).copy();
\* last7[col] = pd.to_numeric(...); last7["caf_bin"] = pd.cut(...).
build_recommendations_frames(logs_df) ==
    IF logs_df = <<>> THEN <<logs_df>>
    ELSE LET h1 == <<logs_df>>
             h2 == Append(h1, sort_values(h1[1]))
             df == Len(h2)
             h3 == Append(h2, tail(h2[df], 7))
             last7 == Len(h3)
             h4 == [h3 EXCEPT ![last7] = Coerce(@)]
         IN  IF Len(h4[last7]) >= 3 THEN [h4 EXCEPT ![last7] = AddCafBin(@)] ELSE h4

\* After the call the caller's frame is what object 1 holds.
Cafe1Report ==
    /\ report = NoReport
    /\ LET rec == build_recommendations(prow, history)
           last7 == tail(sort_values(history), 7)
       IN  report' = [fn |-> "Cafe1", summary |-> rec.summary, today |-> rec.today,
                      patterns |-> rec.patterns,
                      caf_bin |-> IF Len(last7) >= 3 THEN CafBinColumn(last7) ELSE <<>>]
    /\ history' = build_recommendations_frames(history)[1]
    /\ UNCHANGED <<metricVars, ruleVars, storeVars, appVars>>

\* CafeLamiaa.py: build_recommendations(prow, history).
LamiaaReport ==
    /\ report = NoReport
    /\ LET rec == build_recommendations_Lamiaa(prow, history)
       IN  report' = [fn |-> "CafeLamiaa", summary |-> rec.summary, today |-> rec.today,
                      patterns |-> rec.patterns, caf_bin |-> <<>>]
    /\ UNCHANGED <<history, metricVars, ruleVars, storeVars, appVars>>

\* cafe.py: weekly_insights(history).
WeeklyInsights ==
    /\ report = NoReport
    /\ report' = [fn |-> "cafe", summary |-> <<>>, today |-> <<>>,
                  patterns |-> weekly_insights(history),
                  caf_bin |-> IF Len(history) >= 5 THEN CafBinColumn(history) ELSE <<>>]
    /\ UNCHANGED <<history, metricVars, ruleVars, storeVars, appVars>>

NextReports ==
    \/ Cafe1Report
    \/ LamiaaReport
    \/ WeeklyInsights

SpecReports == InitReports /\ [][NextReports]_vars

(***************************************************************************)
(* The trend analyzer and the reporter against the history they are given. *)
(***************************************************************************)
Msgs == {report.patterns[i].msg : i \in 1..Len(report.patterns)}
CounterMsgs == {"high", "late", "lowsleep"}
FallbackMsgs == {"notrend", "notenough5", "noinsights"}
CorrelationMsgs == {"corr_sleep_quality", "corr_sleep_hours", "corr_anxiety"}
ByBuildRecommendations == report.fn \in {"Cafe1", "CafeLamiaa"}

\* The records of the history with the latest dates, seven at most.
Window ==
    {i \in 1..Len(history) :
        Cardinality({j \in 1..Len(history) : history[j].date > history[i].date}) < 7}
HighCount ==
    Cardinality({i \in Window : history[i].caffeine_mg_total.k = "num"
                                /\ history[i].caffeine_mg_total.v > Fx(200)})
LateCount ==
    Cardinality({i \in Window : history[i].last_caffeine_hour.k = "num"
                                /\ history[i].last_caffeine_hour.v >= Fx(17)})
LowSleepCount ==
    Cardinality({i \in Window : history[i].sleep_hours.k = "num"
                                /\ history[i].sleep_hours.v < Fx(7)})

\* C11: given a non-empty history of fewer than 3 records, the trend analyzer
\* returns exactly one message, the insufficient-data message, and no counter
\* or bin-comparison message, whatever the values of the records.
C11_FewerThanThree ==
    (ByBuildRecommendations /\ Len(history) \in {1, 2})
        => report.patterns = <<PatternMsg("notrend", 0)>>

\* Two days of high, late intake: only the insufficient-data message.
C11_Witness ==
    /\ report.fn = "Cafe1"
    /\ Len(history) = 2
    /\ \A i \in 1..2 : history[i].caffeine_mg_total = Num(Fx(250))
    /\ report.patterns = <<PatternMsg("notrend", 0)>>

CounterReported(name, count) ==
    /\ count >= 3 <=> \E i \in 1..Len(report.patterns) :
                          report.patterns[i] = PatternMsg(name, count)
    /\ \A i \in 1..Len(report.patterns) :
           report.patterns[i].msg = name
               => report.patterns[i].n = count /\ count >= 3 /\ count <= 7

\* C12: for a history of n >= 3 records given in any order, the counts are
\* taken over the min(n, 7) records with the latest dates, and each of the
\* high-intake, late-intake and short-sleep counters has its message, naming
\* the count, if and only if the count is at least 3; every named count is
\* between 3 and 7.
C12_Counters ==
    (ByBuildRecommendations /\ Len(history) >= 3) =>
        /\ CounterReported("high", HighCount)
        /\ CounterReported("late", LateCount)
        /\ CounterReported("lowsleep", LowSleepCount)

\* Three records, all above 200 mg: the high-intake message with count 3.
C12_Witness ==
    /\ report.fn = "Cafe1"
    /\ Len(history) = 3
    /\ \A i \in 1..3 : history[i].caffeine_mg_total = Num(Fx(250))
    /\ report.patterns = <<PatternMsg("high", 3)>>

\* The counters over a window cut from more days than it holds, given latest
\* day first, two messages together.
C12_WitnessWindow ==
    /\ report.fn = "Cafe1"
    /\ Len(history) = 8 /\ history[1].date = 8
    /\ {"high", "late"} \subseteq Msgs

\* The bins that hold a record of the window with a sleep quality.
RatedBins ==
    {report.caf_bin[i].caf_bin :
        i \in {i \in 1..Len(report.caf_bin) :
                  /\ report.caf_bin[i].caf_bin /= NoBin
                  /\ report.caf_bin[i].sleep_quality_1_5.k = "num"}}
BinnedCount ==
    Cardinality({i \in 1..Len(report.caf_bin) : report.caf_bin[i].caf_bin /= NoBin})

\* C13: build_recommendations (Cafe1.py) reports the best-bin / worst-bin
\* comparison only when the window holds at least 5 binned records and at
\* least two bins have a defined mean sleep quality; with all window records
\* in one bin no comparison is reported.
C13_ComparisonNeedsTwoBins ==
    (report.fn = "Cafe1" /\ "compare" \in Msgs)
        => BinnedCount >= 5 /\ Cardinality(RatedBins) >= 2

\* Supporting fact: a comparison is reported exactly when the window holds at
\* least 5 binned records and at least one bin has a defined mean.
C13_ComparisonNeedsOneBin ==
    report.fn = "Cafe1"
        => ("compare" \in Msgs <=> BinnedCount >= 5 /\ Cardinality(RatedBins) >= 1)

\* The bin named after an intake level.
LevelBin(level) ==
    CASE level = Faible -> FaibleBin
      [] level = Moyen -> MoyenBin
      [] level = Eleve -> EleveBin

\* C14: the bins are the intake levels: every window record with a
\* non-negative total is in exactly the bin that the intake level of its
\* total names, and no such record is left out of all bins.
C14_BinsAreLevels ==
    \A i \in 1..Len(report.caf_bin) :
        (report.caf_bin[i].total.k = "num" /\ report.caf_bin[i].total.v >= 0)
            => report.caf_bin[i].caf_bin =
                   LevelBin(IF report.fn = "cafe" THEN risk_level(report.caf_bin[i].total.v)
                            ELSE caffeine_level(report.caf_bin[i].total.v))

\* Supporting fact: bins and levels agree on the whole-number totals up to
\* 10000 mg.
C14_BinsAreLevelsWholeMg ==
    \A i \in 1..Len(report.caf_bin) :
        (/\ report.caf_bin[i].total.k = "num"
         /\ report.caf_bin[i].total.v >= 0 /\ report.caf_bin[i].total.v <= Fx(10000)
         /\ report.caf_bin[i].total.v % 100 = 0)
            => report.caf_bin[i].caf_bin = LevelBin(caffeine_level(report.caf_bin[i].total.v))

\* C15: for every non-empty history the trend output is never empty; the
\* single not-enough-data message is there if and only if no counter message
\* and no bin-comparison message is, and never next to one of them
\* (build_recommendations `patterns`, weekly_insights of cafe.py).
C15_FallbackIffNoPattern ==
    (report.fn \in {"Cafe1", "cafe"} /\ history /= <<>>) =>
        /\ report.patterns /= <<>>
        /\ Msgs \cap FallbackMsgs /= {} <=> Msgs \cap (CounterMsgs \cup {"compare"}) = {}
        /\ Msgs \cap FallbackMsgs /= {} => Len(report.patterns) = 1

\* C15 as it holds: the output is never empty, and a not-enough-data message
\* is there, alone, if and only if no counter, comparison or correlation
\* message is; in build_recommendations there is no correlation message.
C15_FallbackIffNothingElse ==
    (report.fn /= "none" /\ history /= <<>>) =>
        /\ report.patterns /= <<>>
        /\ Msgs \cap FallbackMsgs /= {}
               <=> Msgs \cap (CounterMsgs \cup {"compare"} \cup CorrelationMsgs) = {}
        /\ Msgs \cap FallbackMsgs /= {} => Len(report.patterns) = 1
        /\ ByBuildRecommendations => Msgs \cap CorrelationMsgs = {}

\* weekly_insights on five days of one bin: the correlation messages and
\* nothing else.
C15_Witness ==
    /\ report.fn = "cafe"
    /\ Len(history) = 5
    /\ Msgs = CorrelationMsgs

\* C16: when the input history is empty the reporter returns a summary of
\* exactly one no-data message and empty today and patterns lists, with or
\* without a participant profile.
C16_EmptyHistory ==
    (ByBuildRecommendations /\ history = <<>>) =>
        /\ report.summary = <<Entry("Aucune donnee", <<>>)>>
        /\ report.today = <<>>
        /\ report.patterns = <<>>

C16_Witness ==
    /\ report.fn = "Cafe1"
    /\ history = <<>>
    /\ prow /= NoProfile
    /\ report.summary = <<Entry("Aucune donnee", <<>>)>>
    /\ report.patterns = <<>>

HasSensitivityEntry ==
    \E i \in 1..Len(report.summary) : report.summary[i].tag = "Sensibilite declaree"

\* C17: the summary holds a sensitivity entry if and only if the participant's
\* sensitivity is known: none without a profile or with a profile whose
\* sensitivity is empty or missing, one when it is low, medium or high.
C17_SensitivityIfKnown ==
    (ByBuildRecommendations /\ history /= <<>>) =>
        (HasSensitivityEntry
            <=> prow /= NoProfile /\ prow.sensitivity \in SensitivityChoices)

\* Supporting fact: the same for every profile but the one whose sensitivity
\* cell is empty in participants.csv.
C17_SensitivityUnlessEmptyCell ==
    (ByBuildRecommendations /\ history /= <<>> /\ prow.sensitivity /= "NaN") =>
        (HasSensitivityEntry
            <=> prow /= NoProfile /\ prow.sensitivity \in SensitivityChoices)

(***************************************************************************)
(* The record store: what an append and a delete do to the other records   *)
(* (checked under Spec).                                                   *)
(***************************************************************************)
HasKey(r, pid, date) == r.participant_id = pid /\ r.date = date

\* A delete removes the rows of its key and nothing else, an accepted append
\* adds one row at the end, and no other step touches the file.
DeleteExact ==
    flash'.kind = "deleted" =>
        /\ logsFile' = SelectSeq(logsFile, LAMBDA r : ~HasKey(r, flash'.pid, flash'.date))
        /\ Len(logsFile') < Len(logsFile)
AppendExact ==
    flash'.kind = "saved" =>
        /\ Len(logsFile') = Len(logsFile) + 1
        /\ SubSeq(logsFile', 1, Len(logsFile)) = logsFile
        /\ HasKey(logsFile'[Len(logsFile')], flash'.pid, flash'.date)
OthersKeep ==
    flash'.kind \notin {"deleted", "saved"} => logsFile' = logsFile

\* C21: deleting a record by (participant, date) removes exactly the records
\* with that key and leaves every other record of every participant
\* unchanged; no operation modifies a stored record in place; a successful
\* append adds exactly one record and changes no existing one.
C21_AppendOnlyStore == [][DeleteExact /\ AppendExact /\ OthersKeep]_vars

\* Supporting fact: the same, as long as no stored identifier is an integer
\* literal.
C21_AppendOnlyTextIds ==
    [][StoredIds \cap IntLiterals = {} => (DeleteExact /\ AppendExact /\ OthersKeep)]_vars

(***************************************************************************)
(* lamiaacafe.py: one session's running total and history.  Each click     *)
(* reruns the script; the add-cup handler reads the clock's hour.          *)
(***************************************************************************)
MAX_CAFEINE == 400
HEURE_LIMITE == 16
CAFEINE_BOISSONS ==
    <<[boisson |-> "Expresso", mg |-> 70],
      [boisson |-> "Cafe filtre", mg |-> 100],
      [boisson |-> "The", mg |-> 40]>>
Boissons == {CAFEINE_BOISSONS[i].boisson : i \in 1..Len(CAFEINE_BOISSONS)}
MgOf(boisson) ==
    CAFEINE_BOISSONS[CHOOSE i \in 1..Len(CAFEINE_BOISSONS) :
                         CAFEINE_BOISSONS[i].boisson = boisson].mg

MaxCups == 4       \* longest history of one day
\* Hours datetime.now().hour returns when the button is clicked.
ClockHours == {9, 15, 16, 23}

stat_global(total) ==
    IF total < 250 THEN "saine"
    ELSE IF total < 400 THEN "attention"
    ELSE "exces"

conseils_sante(total) ==
    IF total < 200 THEN "vigilance"
    ELSE IF total < 350 THEN "stress_palpitations"
    ELSE "risque_eleve"

\* The st.info text of the add-cup handler, once the total is updated.
AddMessage(total, heure) ==
    (IF heure >= HEURE_LIMITE THEN <<"apres16h">> ELSE <<>>)
        \o <<conseils_sante(total), stat_global(total)>>

InitCups ==
    /\ cups = NoCups
    /\ budget = NoBudget
    /\ sess = NoSess
    /\ acked = {}
    /\ MetricIdle
    /\ RuleIdle
    /\ StoreIdle
    /\ TrendIdle

\* Faulty variant: the click adds to the total without recording the cup.
AddCup_TotalOnly ==
    /\ Len(cups.historique) < MaxCups
    /\ \E boisson \in Boissons, heure \in ClockHours :
        LET total == cups.total_cafeine + MgOf(boisson)
        IN  cups' = [cups EXCEPT !.total_cafeine = total, !.clicked = "add",
                                 !.message = AddMessage(total, heure)]
    /\ UNCHANGED <<budget, sess, acked, metricVars, ruleVars, storeVars, trendVars>>

\* "Ajouter une tasse"
AddCup ==
    /\ Len(cups.historique) < MaxCups
    /\ \E boisson \in Boissons, heure \in ClockHours :
        LET mg == MgOf(boisson)
            total == cups.total_cafeine + mg
        IN  cups' = [total_cafeine |-> total,
                     historique |-> Append(cups.historique, <<boisson, mg, heure>>),
                     clicked |-> "add",
                     message |-> AddMessage(total, heure)]
    /\ UNCHANGED <<budget, sess, acked, metricVars, ruleVars, storeVars, trendVars>>

\* "Nouvelle journee"
NewDay ==
    /\ cups' = [total_cafeine |-> 0, historique |-> <<>>, clicked |-> "new_day",
                message |-> <<>>]
    /\ UNCHANGED <<budget, sess, acked, metricVars, ruleVars, storeVars, trendVars>>

NextCups ==
    \/ AddCup
    \/ NewDay

SpecCups == InitCups /\ [][NextCups]_vars

\* The entry the last add appended.
LastCup == cups.historique[Len(cups.historique)]

\* C22: the engine's results are a function of its explicit inputs only, the
\* clock being read only to stamp a record: the advice shown when an intake
\* is added (the drink, on top of the session's total) is the same whatever
\* hour the clock reads.
C22_AdviceIgnoresClock ==
    cups.clicked = "add" =>
        \A heure \in ClockHours : cups.message = AddMessage(cups.total_cafeine, heure)

\* Supporting fact: the advice is that of the total and of the hour the
\* clock read at the click.
C22_AdviceOfTotalAndHour ==
    cups.clicked = "add" => cups.message = AddMessage(cups.total_cafeine, LastCup[3])

\* Supporting fact (checked under SpecMetrics): when both reads of
\* date.today() fall on the same day, the sleep duration cafe.py computes
\* from a bed time and a wake time is the same whatever that day is, and is
\* the duration of C7 on whole hours.
C22_SleepIgnoresDay ==
    (call.fn = "compute_sleep_hours" /\ result.done /\ ~result.midnight) =>
        /\ \A today \in 1..MaxDate :
               result.hours = compute_sleep_hours(call.bed, call.wake, today, today)
        /\ (call.bed % 60 = 0 /\ call.wake % 60 = 0) =>
               result.hours = compute_sleep_hours_from_hours(call.bed \div 60, call.wake \div 60)

\* The same without the condition on the two reads: it fails for a wake time
\* later in the day than the bed time when midnight passes between them.
C22_SleepIgnoresClock ==
    (call.fn = "compute_sleep_hours" /\ result.done) =>
        \A today \in 1..MaxDate :
            result.hours = compute_sleep_hours(call.bed, call.wake, today, today)

\* The sum of the mg amounts of the entries of a history.
RECURSIVE SumMg(_)
SumMg(historique) ==
    IF historique = <<>> THEN 0
    ELSE historique[1][2] + SumMg(Tail(historique))

TotalIsSum == cups.total_cafeine = SumMg(cups.historique)
AddAppendsOne ==
    cups'.clicked = "add" =>
        /\ Len(cups'.historique) = Len(cups.historique) + 1
        /\ SubSeq(cups'.historique, 1, Len(cups.historique)) = cups.historique
        /\ LET cup == cups'.historique[Len(cups'.historique)]
           IN  /\ cup[1] \in Boissons
               /\ cup[2] = MgOf(cup[1])
               /\ cups'.total_cafeine = cups.total_cafeine + MgOf(cup[1])
NewDayResets ==
    cups'.clicked = "new_day" => (cups'.total_cafeine = 0 /\ cups'.historique = <<>>)

\* C29: after any sequence of 'Ajouter une tasse' and 'Nouvelle journee'
\* clicks, total_cafeine equals the sum of the mg amounts of the entries of
\* historique; each add appends exactly one entry and raises the total by
\* that drink's catalog amount; 'Nouvelle journee' sets the total to 0 and
\* the history to empty.
C29_TotalMatchesHistory == []TotalIsSum /\ [][AddAppendsOne /\ NewDayResets]_vars

\* Three cups of different drinks are on the history after an add.
C29_Witness ==
    /\ cups.clicked = "add"
    /\ Len(cups.historique) = 3
    /\ {cups.historique[i][1] : i \in 1..3} = Boissons
    /\ cups.total_cafeine = 210

(***************************************************************************)
(* The reporter and its caller's objects (checked under SpecReports).      *)
(***************************************************************************)
\* C23: build_recommendations does not mutate its inputs: after the call the
\* caller's record collection has the same rows in the same order with the
\* same field values (no added bin column, no numeric coercion) and the
\* profile is unchanged.
C23_InputsUntouched ==
    [][report'.fn = "Cafe1" => (history' = history /\ prow' = prow)]_vars

\* A report was built from a history of three days or more that is not in
\* date order and holds a cell that is not a number.
C23_Witness ==
    /\ report.fn = "Cafe1"
    /\ Len(history) >= 3
    /\ history /= sort_values(history)
    /\ \E i \in 1..Len(history) : history[i].sleep_hours.k = "str"
    /\ Len(report.caf_bin) >= 3

(***************************************************************************)
(* Two browser sessions on the same CSV files (Cafe1.py).  Each submit of  *)
(* the daily_entry form is a script run that reads the whole log, tests    *)
(* the key against the frame it read and writes the whole frame back;      *)
(* nothing orders the read and the write of one run against those of the   *)
(* other session's run.                                                    *)
(***************************************************************************)
\* The participant lists the sessions start from.
ParticipantFiles ==
    { <<[participant_id |-> "P001", sensitivity |-> "Moyenne"]>>,
      <<[participant_id |-> "P001", sensitivity |-> "Moyenne"],
        [participant_id |-> "001", sensitivity |-> "Forte"]>> }

InitSessions ==
    /\ participants \in ParticipantFiles
    /\ logsFile = <<>>
    /\ pack = NoPack
    /\ flash = NoFlash
    /\ sess = NoSess
    /\ acked = {}
    /\ cups = NoCups
    /\ budget = NoBudget
    /\ MetricIdle
    /\ RuleIdle
    /\ TrendIdle

\* The run of a submit up to logs = load_logs() (Cafe1.py:537-541).
SessionLoad(s) ==
    /\ sess[s].pc = "idle"
    /\ Len(logsFile) < MaxLogs
    /\ \E i \in 1..Len(participants), entry_date \in Dates, form \in EntryForms :
        sess' = [sess EXCEPT ![s] =
                    [pc |-> "loaded",
                     pid |-> participant_ids(load_participants(participants))[i],
                     entry_date |-> entry_date, form |-> form,
                     logs |-> load_logs(logsFile)]]
    /\ UNCHANGED <<acked, cups, budget, storeVars, metricVars, ruleVars, trendVars>>

\* The rest of the run: the duplicate test on the frame that was read, then
\* st.error, or the append, save_logs and st.success (Cafe1.py:544-602).
SessionSave(s) ==
    /\ sess[s].pc = "loaded"
    /\ LET logs == sess[s].logs
           pid == sess[s].pid
           entry_date == sess[s].entry_date
           dup == SelectSeq(logs, LAMBDA r : r.participant_id = pid /\ r.date = entry_date)
       IN  IF logs /= <<>> /\ dup /= <<>> THEN
               UNCHANGED <<logsFile, acked>>
           ELSE
               /\ logsFile' = save_logs(Append(logs, NewRow(pid, entry_date, sess[s].form)))
               /\ acked' = acked \cup {<<pid, entry_date>>}
    /\ sess' = [sess EXCEPT ![s] = IdleSession]
    /\ UNCHANGED <<participants, pack, flash, cups, budget, metricVars, ruleVars, trendVars>>

\* Page 4, "Supprimer la saisie", in one session.
SessionDelete(s) ==
    /\ sess[s].pc = "idle"
    /\ logsFile /= <<>>
    /\ \E i \in 1..Len(participants) :
        LET logs == load_logs(logsFile)
            del_pid == participant_ids(load_participants(participants))[i]
            pid_dates == {logs[k].date : k \in {k \in 1..Len(logs) :
                                                   logs[k].participant_id = del_pid}}
        IN  \E del_date \in pid_dates :
                /\ logsFile' = save_logs(SelectSeq(logs,
                       LAMBDA r : ~(r.participant_id = del_pid /\ r.date = del_date)))
                /\ acked' = acked \ {<<del_pid, del_date>>}
    /\ UNCHANGED <<sess, participants, pack, flash, cups, budget, metricVars, ruleVars,
                   trendVars>>

NextSessions ==
    \E s \in Sessions :
        \/ SessionLoad(s)
        \/ SessionSave(s)
        \/ SessionDelete(s)

SpecSessions == InitSessions /\ [][NextSessions]_vars

\* C24: when two sessions each execute the record-append sequence with their
\* steps interleaved and nothing serializing them, the stored log still never
\* holds two records with the same (participant, date).
C24_OneRecordPerKeyInterleaved ==
    LET logs == load_logs(logsFile)
    IN  \A i, j \in 1..Len(logs) :
            (logs[i].participant_id = logs[j].participant_id /\ logs[i].date = logs[j].date)
                => i = j

\* Supporting fact: the same, as long as no stored identifier is an integer
\* literal.
C24_OneRecordPerKeyTextIds ==
    (StoredIds \cap IntLiterals = {}) => C24_OneRecordPerKeyInterleaved

\* C25: every record whose append was acknowledged as successful is in the
\* stored log until it is explicitly deleted by key, also when two sessions
\* append records with different keys and their load and save steps
\* interleave.  (Stated for identifiers that are not integer literals, which
\* the store reads back as they were written.)
C25_AckedStayStored ==
    (StoredIds \cap IntLiterals = {}) => \A key \in acked : key \in StoredKeys

\* Supporting fact: an acknowledged record leaves the log without a delete
\* only by the save of a run whose frame is no longer what the file holds.
Stale(s) == sess[s].pc = "loaded" /\ sess[s].logs /= load_logs(logsFile)
C25_LostOnlyByStaleSave ==
    [][(/\ StoredIds \cap IntLiterals = {}
        /\ \A key \in acked : key \in StoredKeys
        /\ \E key \in acked' : key \notin {<<logsFile'[i].participant_id, logsFile'[i].date>> :
                                                i \in 1..Len(logsFile')})
          => \E s \in Sessions : Stale(s) /\ sess'[s].pc = "idle"]_vars

(***************************************************************************)
(* The store of cafe.py: participants can also be deleted (page 1), with   *)
(* or without their daily logs.  Both files are loaded at the top of each  *)
(* script run.                                                             *)
(***************************************************************************)
\* load_participants / load_logs of cafe.py: participant_id as a string.
cafe_load_participants(file) == read_csv(file)
cafe_load_logs(file) == read_csv(file)

\* new_row of cafe.py's daily_entry handler: the times of day come from
\* st.time_input and the duration from compute_sleep_hours, whose second
\* clock read is `later` days after the first.
CafeNewRow(pid, entry_date, form, later) ==
    LET caf == compute_caffeine_total(FormDrinkQty(form.q))
        sleep_h == compute_sleep_hours(form.bed_hour * 60, form.wake_hour * 60,
                                       entry_date, entry_date + later)
    IN  Row(entry_date, pid, Num(Fx(caf.total)), Num(Fx(form.last_caffeine_hour)),
            Num(sleep_h), Num(Fx(form.sleep_quality)), Num(Fx(form.stress)),
            Num(Fx(form.anxiety)), Num(Fx(form.focus)),
            Num(Fx(IntOfBool(form.palpitations))), Num(Fx(IntOfBool(form.headache))),
            Num(Fx(IntOfBool(form.irritability))), Num(Fx(IntOfBool(form.digestive))))
        @@ [bed_time |-> form.bed_hour * 60, wake_time |-> form.wake_hour * 60,
            drinks_detail |-> caf.detail]

InitCafe ==
    /\ participants = <<>>
    /\ logsFile = <<>>
    /\ pack = NoPack
    /\ flash = NoFlash
    /\ MetricIdle
    /\ RuleIdle
    /\ TrendIdle
    /\ AppIdle

\* Page 1, form add_participant.
CafeAddParticipant ==
    /\ Len(participants) < MaxParticipants
    /\ \E raw \in PidInputs, sensitivity \in SensitivityChoices :
        LET frame == cafe_load_participants(participants)
            existing_ids == SeqRange(participant_ids(frame))
            pid == StripUpper(raw)
        IN  IF pid = "" THEN
                /\ flash' = Flash("id_required", "", 0)
                /\ UNCHANGED participants
            ELSE IF pid \in existing_ids THEN
                /\ flash' = Flash("id_exists", pid, 0)
                /\ UNCHANGED participants
            ELSE
                /\ participants' = save_participants(
                       Append(frame, [participant_id |-> pid, sensitivity |-> sensitivity]))
                /\ flash' = Flash("added", pid, 0)
    /\ UNCHANGED <<logsFile, pack, metricVars, ruleVars, trendVars, appVars>>

\* Faulty variant: the participant's daily logs always stay.
CafeDeleteParticipant_KeepLogs ==
    /\ participants /= <<>>
    /\ \E i \in 1..Len(participants) :
        LET frame == cafe_load_participants(participants)
            del_pid == participant_ids(frame)[i]
        IN  /\ participants' = save_participants(
                   SelectSeq(frame, LAMBDA x : x.participant_id /= del_pid))
            /\ flash' = Flash("participant_deleted", del_pid, 0)
    /\ UNCHANGED <<logsFile, pack, metricVars, ruleVars, trendVars, appVars>>

\* Page 1, "Supprimer": drop the participant and, when the checkbox
\* "Supprimer aussi ses données" is ticked, the participant's daily logs.
\* (The st.success text is the same in both cases; the kind of the flash
\* records the checkbox.)
CafeDeleteParticipant ==
    /\ participants /= <<>>
    /\ \E i \in 1..Len(participants), delete_logs \in BOOLEAN :
        LET frame == cafe_load_participants(participants)
            logs == cafe_load_logs(logsFile)
            del_pid == participant_ids(frame)[i]
        IN  /\ participants' = save_participants(
                   SelectSeq(frame, LAMBDA x : x.participant_id /= del_pid))
            /\ IF delete_logs /\ logs /= <<>>
               THEN logsFile' = save_logs(
                        SelectSeq(logs, LAMBDA r : r.participant_id /= del_pid))
               ELSE UNCHANGED logsFile
            /\ flash' = Flash(IF delete_logs THEN "participant_deleted_with_logs"
                                             ELSE "participant_deleted", del_pid, 0)
    /\ UNCHANGED <<pack, metricVars, ruleVars, trendVars, appVars>>

\* Page 2, form daily_entry, on the log loaded at the top of the run.
CafeSubmitEntry ==
    /\ participants /= <<>>
    /\ Len(logsFile) < MaxLogs
    /\ \E i \in 1..Len(participants), entry_date \in Dates, form \in EntryForms,
          later \in 0..1 :
        LET pid == participant_ids(cafe_load_participants(participants))[i]
            logs == cafe_load_logs(logsFile)
            dup == SelectSeq(logs, LAMBDA r : r.participant_id = pid /\ r.date = entry_date)
        IN  IF logs /= <<>> /\ dup /= <<>> THEN
                /\ flash' = Flash("duplicate", pid, entry_date)
                /\ UNCHANGED logsFile
            ELSE
                /\ logsFile' = save_logs(Append(logs, CafeNewRow(pid, entry_date, form, later)))
                /\ flash' = Flash("saved", pid, entry_date)
    /\ UNCHANGED <<participants, pack, metricVars, ruleVars, trendVars, appVars>>

\* Page 5, "Supprimer la saisie".
CafeDeleteEntry ==
    /\ participants /= <<>>
    /\ logsFile /= <<>>
    /\ \E i \in 1..Len(participants) :
        LET logs == cafe_load_logs(logsFile)
            del_pid == participant_ids(cafe_load_participants(participants))[i]
            pid_dates == {logs[k].date : k \in {k \in 1..Len(logs) :
                                                   logs[k].participant_id = del_pid}}
        IN  \E del_date \in pid_dates :
                /\ logsFile' = save_logs(SelectSeq(logs,
                       LAMBDA r : ~(r.participant_id = del_pid /\ r.date = del_date)))
                /\ flash' = Flash("deleted", del_pid, del_date)
    /\ UNCHANGED <<participants, pack, metricVars, ruleVars, trendVars, appVars>>

NextCafe ==
    \/ CafeAddParticipant
    \/ CafeDeleteParticipant
    \/ CafeSubmitEntry
    \/ CafeDeleteEntry

SpecCafe == InitCafe /\ [][NextCafe]_vars

\* The identifiers written in daily_logs.csv.
LoggedIds == {logsFile[i].participant_id : i \in 1..Len(logsFile)}
NoOrphan == LoggedIds \subseteq StoredIds

\* C26: after any sequence of add-participant, delete-participant,
\* append-record and delete-record operations, every stored daily record's
\* participant identifier is that of a participant that still exists.
\* (Stated for identifiers that are not integer literals, which the store
\* reads back as they were written.)
C26_RecordsHaveParticipant ==
    ((StoredIds \cup LoggedIds) \cap IntLiterals = {}) => NoOrphan

\* Supporting fact: a record loses its participant only by a delete of the
\* participant with the checkbox left unticked.
C26_OrphanOnlyByKeepLogs ==
    [][(/\ ((StoredIds \cup LoggedIds) \cap IntLiterals = {})
        /\ NoOrphan
        /\ ~(LET ids == {participants'[i].participant_id : i \in 1..Len(participants')}
             IN  \A i \in 1..Len(logsFile') : logsFile'[i].participant_id \in ids))
          => flash'.kind = "participant_deleted"]_vars

(***************************************************************************)
(* APPLICATION.py: the budget manager.  Every click reruns the script from *)
(* the top with the session state kept and every other name unbound.       *)
(***************************************************************************)
Categories ==
    <<"Logement", "Alimentation", "Transport", "Factures", "Loisirs", "Sport",
      "Vetements", "Autre">>
NoExpenses == [i \in 1..Len(Categories) |-> 0]
\* Fillings of the expense inputs (MAD), of the salary and of the children's
\* charges.
ExpenseInputs ==
    { NoExpenses,
      [NoExpenses EXCEPT ![1] = 2000, ![2] = 1000],
      [NoExpenses EXCEPT ![1] = 1000, ![2] = 500, ![3] = 300, ![5] = 500] }
SalaryInputs == {0, 3000, 10000}
ChildrenInputs == {0, 500}
Usernames == {"lamia", ""}
Passwords == {"pw", ""}

\* sorted(expenses.items(), key=value, reverse=True)[:3]: positions of the
\* three largest expenses, ties in input order.
RECURSIVE InsertByValue(_, _, _)
InsertByValue(sorted, i, expenses) ==
    IF sorted = <<>> THEN <<i>>
    ELSE IF expenses[sorted[Len(sorted)]] >= expenses[i] THEN Append(sorted, i)
    ELSE Append(InsertByValue(SubSeq(sorted, 1, Len(sorted) - 1), i, expenses),
                sorted[Len(sorted)])
RECURSIVE SortedByValue(_, _)
SortedByValue(n, expenses) ==
    IF n = 0 THEN <<>> ELSE InsertByValue(SortedByValue(n - 1, expenses), n, expenses)
TopExpenses(expenses) == SubSeq(SortedByValue(Len(expenses), expenses), 1, 3)

RECURSIVE SumSeq(_)
SumSeq(xs) == IF xs = <<>> THEN 0 ELSE xs[1] + SumSeq(Tail(xs))

\* analyze_budget: the suggested saving rate and the message (its case and
\* the expenses it lists).
analyze_budget(salary, reste, expenses) ==
    IF salary <= 0 THEN [pct |-> 0, msg |-> [kind |-> "salaire_invalide", top |-> <<>>]]
    ELSE LET case == IF reste <= 0 THEN [pct |-> 0, kind |-> "deficitaire"]
                     ELSE IF reste * 100 >= 30 * salary THEN [pct |-> 30, kind |-> "bon"]
                     ELSE IF reste * 100 >= 10 * salary THEN [pct |-> 15, kind |-> "correct"]
                     ELSE [pct |-> 5, kind |-> "faible"]
             top_exp == TopExpenses(expenses)
         IN  [pct |-> case.pct,
              msg |-> [kind |-> case.kind,
                       top |-> IF \E k \in 1..Len(top_exp) : expenses[top_exp[k]] > 0
                               THEN [k \in 1..Len(top_exp) |->
                                        <<Categories[top_exp[k]], expenses[top_exp[k]]>>]
                               ELSE <<>>]]

\* The row handed to save_budget_to_csv (the date stamp is left out).
BudgetRow(user, data) ==
    [username |-> user, salary |-> data.salary, total_expenses |-> data.total,
     reste |-> data.reste, suggested_pct |-> data.pct, suggested_amt |-> data.amt,
     expenses |-> data.expenses, children |-> data.children]

\* One run of the main interface (lines 100-202) for a click: "calc" carries
\* the inputs; any other click leaves analysis_msg unbound, and st.info
\* (line 153) then raises NameError as soon as the session holds a result,
\* which ends the run before the save button is created.
MainRun(b, click, salary, expenses, children) ==
    LET total_exp == SumSeq(expenses) + children
        reste == salary - total_exp
        res == analyze_budget(salary, reste, expenses)
        last == IF click = "calc"
                THEN <<[salary |-> salary, expenses |-> expenses, children |-> children,
                      total |-> total_exp, reste |-> reste, pct |-> res.pct,
                      amt |-> reste * res.pct]>>
                ELSE b.last
        analysis_msg == IF click = "calc" THEN <<res.msg>> ELSE Unbound
    IN  IF last = NoLast THEN
            [b EXCEPT !.page = "main", !.msg = Unbound, !.save_shown = FALSE,
                      !.clicked = click]
        ELSE IF analysis_msg = Unbound THEN
            [b EXCEPT !.last = last, !.page = "error", !.msg = Unbound,
                      !.save_shown = FALSE, !.clicked = click]
        ELSE
            [b EXCEPT !.last = last, !.page = "main", !.msg = analysis_msg,
                      !.save_shown = TRUE, !.clicked = click,
                      !.csv = IF click = "save" THEN Append(@, BudgetRow(b.user, last[1]))
                              ELSE @]

InitBudget ==
    /\ budget = NoBudget
    /\ cups = NoCups
    /\ sess = NoSess
    /\ acked = {}
    /\ MetricIdle
    /\ RuleIdle
    /\ StoreIdle
    /\ TrendIdle

OtherVars == <<cups, sess, acked, metricVars, ruleVars, storeVars, trendVars>>

\* "Se connecter"; the run ends at st.stop() with the login page on screen.
Connect ==
    /\ budget.user = ""
    /\ budget.page = "login"
    /\ \E username \in Usernames, password \in Passwords :
        budget' = [budget EXCEPT
                      !.user = IF [username |-> username, password |-> password]
                                    \in budget.accounts
                               THEN username ELSE "",
                      !.clicked = "connect"]
    /\ UNCHANGED OtherVars

\* "Créer le compte"
CreateAccount ==
    /\ budget.user = ""
    /\ budget.page = "login"
    /\ \E new_user \in Usernames, new_pass \in Passwords :
        budget' = [budget EXCEPT
                      !.accounts = IF \E a \in budget.accounts : a.username = new_user
                                   THEN @
                                   ELSE @ \cup {[username |-> new_user,
                                                 password |-> new_pass]},
                      !.clicked = "create"]
    /\ UNCHANGED OtherVars

\* "Continuer en invité"
Guest ==
    /\ budget.user = ""
    /\ budget.page = "login"
    /\ budget' = [budget EXCEPT !.user = "Invite", !.clicked = "guest"]
    /\ UNCHANGED OtherVars

\* "Déconnexion", then st.rerun(): the login page.
Logout ==
    /\ budget.user /= ""
    /\ budget.page /= "login"
    /\ budget' = [budget EXCEPT !.user = "", !.page = "login", !.msg = Unbound,
                                !.save_shown = FALSE, !.clicked = "logout"]
    /\ UNCHANGED OtherVars

\* "Calculer le reste"
Calculate ==
    /\ budget.user /= ""
    /\ budget.page /= "login"
    /\ \E salary \in SalaryInputs, expenses \in ExpenseInputs, children \in ChildrenInputs :
        budget' = MainRun(budget, "calc", salary, expenses, children)
    /\ UNCHANGED OtherVars

\* "Sauvegarder dans CSV", on screen once the results panel was rendered.
Save ==
    /\ budget.user /= ""
    /\ budget.save_shown
    /\ budget' = MainRun(budget, "save", 0, NoExpenses, 0)
    /\ UNCHANGED OtherVars

\* Any other interaction while logged in (an input edited, "Vérifier
\* faisabilité", a widget of the login page left on screen after st.stop()).
Rerun ==
    /\ budget.user /= ""
    /\ budget' = MainRun(budget, "other", 0, NoExpenses, 0)
    /\ UNCHANGED OtherVars

NextBudget ==
    \/ Connect
    \/ CreateAccount
    \/ Guest
    \/ Logout
    \/ Calculate
    \/ Save
    \/ Rerun

SpecBudget == InitBudget /\ [][NextBudget]_vars

\* A run of the main interface with a result in the session rendered the
\* results panel, with its analysis message.
PanelDefined ==
    (budget.last /= NoLast /\ budget.page /= "login") =>
        (budget.page = "main" /\ budget.msg /= Unbound)
SaveAppendsOne ==
    budget'.clicked = "save" => Len(budget'.csv) = Len(budget.csv) + 1

\* C27: once 'Calculer le reste' has stored a result in the session, every
\* later rerun, the one triggered by clicking 'Sauvegarder dans CSV'
\* included, renders the results panel with a defined analysis message, so
\* that the save step is reached and appends one row to the budget history.
C27_SaveReached == []PanelDefined /\ [][SaveAppendsOne]_vars

\* Supporting fact: the panel is rendered by the run of 'Calculer le reste'
\* only, and budget_history.csv is never written.
C27_PanelOnlyOnCalculate ==
    /\ budget.page = "main" /\ budget.last /= NoLast => budget.clicked = "calc"
    /\ budget.page = "error" => (budget.last /= NoLast /\ budget.clicked \in {"save", "other"})
    /\ budget.csv = <<>>

(***************************************************************************)
(* The rule engine against the trend counters on the latest record         *)
(* (checked under SpecReports).                                            *)
(***************************************************************************)
\* The latest record of the history by date, the one the rule engine reads.
LatestRecord ==
    history[CHOOSE i \in 1..Len(history) :
                \A j \in 1..Len(history) : history[j].date <= history[i].date]
CountedLowSleep(r) == r.sleep_hours.k = "num" /\ r.sleep_hours.v < Fx(7)
CountedHigh(r) == r.caffeine_mg_total.k = "num" /\ r.caffeine_mg_total.v > Fx(200)
SleepRuleAgrees ==
    ("sleep" \in SeqRange(report.today)) <=> CountedLowSleep(LatestRecord)
HighRuleAgrees ==
    ("heart200" \in SeqRange(report.today)) <=> CountedHigh(LatestRecord)

\* C28: for the latest record of a window of three records or more, the
\* rule engine and the trend analyzer agree: the 'sleep < 7h' rule fires
\* exactly when the record is counted in lowSleepCount and the 'total > 200'
\* rule fires exactly when it is counted in highCount, also when the sleep
\* duration or the total is missing.
C28_RulesAgreeWithCounters ==
    (report.fn = "Cafe1" /\ Len(history) >= 3) => (SleepRuleAgrees /\ HighRuleAgrees)

\* Supporting fact: the two agree on the total in every case, and on the
\* sleep duration whenever its cell is a number.
C28_AgreeOnReadableSleep ==
    (report.fn = "Cafe1" /\ Len(history) >= 3) =>
        /\ HighRuleAgrees
        /\ LatestRecord.sleep_hours.k = "num" => SleepRuleAgrees

(***************************************************************************)
(* next_participant_id (Cafe1.py, cafe.py).  An identifier is a sequence   *)
(* of characters, so that strip, upper, startswith, isdigit, int and the   *)
(* :03d format are computed on its text.                                   *)
(***************************************************************************)
MaxIdLen == 4      \* longest identifier text in existing_ids
\* "^2" stands for the one character SUPERSCRIPT TWO (U+00B2), a digit for
\* str.isdigit() that int() does not accept.
IdChars == {"P", "p", "0", "1", "9", " ", "^2"}
DigitChars == <<"0", "1", "2", "3", "4", "5", "6", "7", "8", "9">>
SuperscriptDigits == {"^2"}

\* str.strip()
RECURSIVE str_strip(_)
str_strip(s) ==
    IF s = <<>> THEN s
    ELSE IF Head(s) = " " THEN str_strip(Tail(s))
    ELSE IF s[Len(s)] = " " THEN str_strip(SubSeq(s, 1, Len(s) - 1))
    ELSE s
\* str.upper()
str_upper(s) == [i \in 1..Len(s) |-> IF s[i] = "p" THEN "P" ELSE s[i]]
\* str.isdigit(): non-empty and every character a digit
isdigit(s) ==
    /\ s /= <<>>
    /\ \A i \in 1..Len(s) : s[i] \in SeqRange(DigitChars) \cup SuperscriptDigits
\* int(s) raises ValueError unless every character is a decimal digit
int_raises(s) == s = <<>> \/ \E i \in 1..Len(s) : s[i] \notin SeqRange(DigitChars)
\* int() of a string of decimal digits
RECURSIVE int_of(_)
int_of(s) ==
    IF s = <<>> THEN 0
    ELSE 10 * int_of(SubSeq(s, 1, Len(s) - 1))
         + (CHOOSE d \in 0..9 : DigitChars[d + 1] = s[Len(s)])
\* str(n) and f"{n:03d}" of a non-negative integer
RECURSIVE str_of(_)
str_of(n) ==
    IF n < 10 THEN <<DigitChars[n + 1]>>
    ELSE Append(str_of(n \div 10), DigitChars[(n % 10) + 1])
RECURSIVE zero_pad(_, _)
zero_pad(s, width) == IF Len(s) >= width THEN s ELSE zero_pad(<<"0">> \o s, width)
format_03d(n) == zero_pad(str_of(n), 3)

\* The loop over existing_ids, taken in any order: max_n after the ids of
\* `todo` have been visited, or the ValueError of int(pid[1:]).
RECURSIVE MaxLoop(_, _)
MaxLoop(todo, max_n) ==
    IF todo = {} THEN [raised |-> FALSE, max_n |-> max_n]
    ELSE LET raw == CHOOSE x \in todo : TRUE
             pid == str_upper(str_strip(raw))
             numbered == pid /= <<>> /\ Head(pid) = "P" /\ isdigit(Tail(pid))
         IN  IF numbered /\ int_raises(Tail(pid)) THEN [raised |-> TRUE, max_n |-> max_n]
             ELSE LET n == IF numbered THEN int_of(Tail(pid)) ELSE 0
                  IN  MaxLoop(todo \ {raw}, IF n > max_n THEN n ELSE max_n)

\* Faulty variant: the number is one more than the count of identifiers.
next_participant_id_Count(existing_ids) ==
    [raised |-> FALSE, id |-> <<"P">> \o format_03d(Cardinality(existing_ids) + 1)]

next_participant_id(existing_ids) ==
    LET loop == MaxLoop(existing_ids, 0)
    IN  IF loop.raised THEN [raised |-> TRUE, id |-> <<>>]
        ELSE [raised |-> FALSE, id |-> <<"P">> \o format_03d(loop.max_n + 1)]

\* Identifier texts of up to MaxIdLen characters, and the usual ones.
IdTexts == UNION {[1..n -> IdChars] : n \in 0..MaxIdLen}
UsualIds ==
    { <<"P", "0", "0", "1">>, <<"P", "0", "0", "9">>, <<"P", "0", "1", "9">>,
      <<"P", "0", "9", "9">>, <<"P", "9", "9", "9">>, <<"P", "1">>, <<"p", "0", "1", "0">>,
      <<" ", "P", "1", " ">>, <<"0", "0", "1">>, <<"P">>, <<"P", "^2">> }

IdCall(existing_ids) == [fn |-> "next_participant_id", existing_ids |-> existing_ids]

InitIds ==
    /\ \E a \in IdTexts : \E b \in UsualIds \cup {a} :
           \E c \in {a, <<"P", "0", "0", "2">>} : call = IdCall({a, b, c})
       \/ call = IdCall({})
    /\ result = NoResult
    /\ RuleIdle
    /\ StoreIdle
    /\ TrendIdle
    /\ AppIdle

\* Page 1: auto_id = next_participant_id(existing_ids) if existing_ids
\* else "P001".
NextParticipantId ==
    /\ call.fn = "next_participant_id"
    /\ ~result.done
    /\ LET auto_id == IF call.existing_ids /= {}
                      THEN next_participant_id(call.existing_ids)
                      ELSE [raised |-> FALSE, id |-> <<"P", "0", "0", "1">>]
       IN  result' = [NoResult EXCEPT !.done = TRUE, !.raised = auto_id.raised,
                                      !.id = auto_id.id]
    /\ UNCHANGED <<call, ruleVars, storeVars, trendVars, appVars>>

NextIds == NextParticipantId

SpecIds == InitIds /\ [][NextIds]_vars

\* The numbers of the existing identifiers of the form P<digits>, once
\* trimmed and upper-cased.
Trimmed(existing_ids) == {str_upper(str_strip(x)) : x \in existing_ids}
Numbered(existing_ids) ==
    {t \in Trimmed(existing_ids) : t /= <<>> /\ Head(t) = "P" /\ isdigit(Tail(t))}
NumbersOf(existing_ids) == {int_of(Tail(pid)) : pid \in Numbered(existing_ids)}
Largest(numbers) ==
    IF numbers = {} THEN 0 ELSE CHOOSE n \in numbers : \A m \in numbers : m <= n

\* The identifier returned is P, max + 1 on three digits or more, and none
\* of the existing identifiers.
FreshId ==
    LET n == Largest(NumbersOf(call.existing_ids)) + 1
        digits == Tail(result.id)
    IN  /\ Head(result.id) = "P"
        /\ ~int_raises(digits)
        /\ int_of(digits) = n
        /\ Len(digits) >= 3
        /\ (Len(digits) > 3 => digits[1] /= "0")
        /\ result.id \notin Trimmed(call.existing_ids)

\* C30: next_participant_id returns P followed by max+1, zero-padded to at
\* least three digits, where max is the largest number among the existing
\* identifiers of the form P<digits> (0 if there is none); whatever the set
\* of existing identifiers, the returned identifier equals none of them
\* after trimming and upper-casing.
C30_NextIdIsFresh == result.done => (~result.raised /\ FreshId)

\* Supporting fact: the call raises exactly when an existing identifier is P
\* followed by digits of which one is not a decimal digit; in every other
\* case the identifier returned is the fresh one of C30.
C30_FreshUnlessRaised ==
    result.done =>
        /\ result.raised <=> \E t \in Numbered(call.existing_ids) : int_raises(Tail(t))
        /\ ~result.raised => FreshId

\* Supporting facts: the identifier after P999 with a lower-case one in the
\* set is P1000; two identifiers with the same number, padded differently,
\* are both below the returned one.
C30_AfterP999 ==
    (/\ result.done
     /\ {<<"P", "9", "9", "9">>, <<"p", "0", "1", "0">>} \subseteq call.existing_ids
     /\ ~result.raised) => result.id = <<"P", "1", "0", "0", "0">>

====
